---- MODULE Spec2Model ----
(***************************************************************************)
(* RING-0 multi-tab replication engine: PropertySyncManager                *)
(* (src/sync-manager.js) and the post offline queue (src/unnamed/part_000).*)
(*                                                                         *)
(* A property record is modelled by the fields the merge code reads:       *)
(*   id           the identifier (a positive number; 0 is JS-falsy)        *)
(*   lastUpdated  the write timestamp, 0 when the field is absent          *)
(*                (the code reads it as `lastUpdated || 0`)                *)
(*   updatedBy    "admin", "user", "merged", or "" when absent             *)
(*   description  one of the fields listed in fieldsToMerge                *)
(*   other        any own field that is not listed in fieldsToMerge        *)
(*   status       "unclaimed" or "claimed"                                 *)
(* Strings: "" is the empty/absent value, "N/A" the placeholder the merge  *)
(* treats as empty.                                                        *)
(***************************************************************************)
EXTENDS Integers, Sequences, FiniteSets, TLC

VARIABLES
    \* --- ConflictResolver harness: one call of resolveConflict / mergeData
    hStage,           \* "idle", "init", then the call that was made
    hAdmin,           \* this.isAdminPanel of the replica making the call
    hNow,             \* Date.now() during the call
    hCurrent,  \* resolveConflict's first argument
    hNew,      \* resolveConflict's second argument
    hResolved,         \* resolveConflict's return value
    hLocal,      \* a collection S (the local one)
    hIncoming,          \* an incoming collection
    hOther,        \* a second incoming collection
    hMergedA,          \* result of the call (first merge order)
    hMergedB,         \* result of the call in the other merge order
    \* --- environment shared by the tabs of one browser
    onLine,           \* navigator.onLine
    clock,            \* Date.now()
    \* --- post offline queue (part_000) and the remote posts table
    pqStored,         \* localStorage['ring0_offline_queue_v1']
    queue,            \* the in-memory `queue`
    runs,             \* the processQueue() invocations: pc, copy, position
    remoteLog,        \* ops the remote collaborator applied, in order
    opCount,          \* number of offlineQueue.add calls so far
    \* --- the page's other helpers
    upload,           \* the uploadToCloudinary call in progress or last made
    realtime,         \* the state of src/js/realtime.js: channel, polling,
                      \* subscriptionActive, and the timers that are running
    \* --- localStorage, shared by every PropertySyncManager of the browser
    hasStore,         \* STORAGE_KEY holds a value
    store,            \* STORAGE_KEY: the persisted collection
    lastUpdateKey,    \* LAST_UPDATE_KEY, 0 when absent
    queueKey,         \* OFFLINE_QUEUE_KEY: the persisted offline queue
    adminOnlineKey,   \* ADMIN_ONLINE_KEY, 0 when absent
    \* --- one PropertySyncManager per tab
    started,          \* the constructor has run
    broadcastChannel, \* this.broadcastChannel: "null", "open", or "throwing"
                      \* (an object whose postMessage throws)
    offlineQueue,     \* this.offlineQueue
    lastKnownUpdate,  \* this.lastKnownUpdate
    syncStatus,       \* this.syncStatus
    inbox,            \* BroadcastChannel messages posted to the tab, not yet handled
    pending,          \* the connectivity event dispatched to the tab, not yet handled
    drainRead,        \* what a processOfflineQueue run in progress has read from
                      \* STORAGE_KEY for its first change and not yet written back
    notices,          \* per tab and storage key: newValue of the newest 'storage'
                      \* event dispatched to the tab and not yet handled, 0 if none
    issued,           \* number of add/update/delete calls so far
    lastResult,       \* how the promise of the latest such call settled
    applyCount,       \* per call number: how often a drain applied its queue entry
    consecutiveFailures, \* this.syncMetrics.consecutiveFailures
    unknownLogged,    \* the manager has logged 'Unknown message type'
    reentered,        \* the manager's handleConflict has called
                      \* handleDataUpdate again (bookkeeping)
    \* --- window.syncManager of src/js/sync.js, one per page
    listeners,        \* the handlers registered with onMessage and not disposed,
                      \* each with the number of broadcasts made before it was
                      \* registered (bookkeeping)
    syncEvents,       \* payloads on their way to the page's `bc.onmessage` or
                      \* 'storage' listener
    heard,            \* per page: <<handler, token>> for every invocation so far
    broadcasts        \* number of syncManager.broadcast calls so far

harnessVars ==
    <<hStage, hAdmin, hNow, hCurrent, hNew, hResolved,
      hLocal, hIncoming, hOther, hMergedA, hMergedB>>

pageVars == <<upload, realtime>>

postVars == <<pqStored, queue, runs, remoteLog, opCount>>

envVars == <<onLine, clock>>

storageVars == <<hasStore, store, lastUpdateKey, queueKey, adminOnlineKey>>

replicaVars ==
    <<started, broadcastChannel, offlineQueue, lastKnownUpdate, syncStatus,
      inbox, pending, drainRead, notices, issued, lastResult, applyCount,
      consecutiveFailures, unknownLogged, reentered>>

syncVars == <<listeners, syncEvents, heard, broadcasts>>

engineVars == <<storageVars, replicaVars, syncVars>>

vars == <<harnessVars, pageVars, envVars, postVars, engineVars>>

\* ------------------------------------------------------------------ bounds
MaxTs == 2
MaxId == 3
MaxLen == 2
MaxClock == 2
MaxOps == 2
MaxMutations == 3
MaxShared == 1
MaxPair == 2
MaxQueue == 3
MaxInbox == 2
MaxPending == 1
MaxBroadcasts == 2
MaxFailures == 3

\* ------------------------------------------------------------ value spaces
Ids == 1..MaxId
Timestamps == 1..MaxTs
Writers == {"admin", "user", "merged"}
Descriptions == {"", "N/A", "d"}
Others == {"", "o"}
Statuses == {"unclaimed", "claimed"}

NullProperty ==
    [id |-> 0, lastUpdated |-> 0, updatedBy |-> "", description |-> "",
     other |-> "", status |-> ""]

\* every record the harness feeds to resolveConflict: metadata is either
\* absent (lastUpdated 0, updatedBy "") or a timestamp with a writer
PropertySet ==
    { [id |-> i, lastUpdated |-> t, updatedBy |-> w, description |-> d,
       other |-> o, status |-> s] :
        i \in Ids, t \in Timestamps, w \in Writers, d \in Descriptions,
        o \in Others, s \in Statuses }
    \cup
    { [id |-> i, lastUpdated |-> 0, updatedBy |-> "", description |-> d,
       other |-> o, status |-> s] :
        i \in Ids, d \in Descriptions, o \in Others, s \in Statuses }

\* JS truthiness of a string field
Truthy(s) == s # ""

\* this.isAdminPanel ? 'admin' : 'user'
RoleName(isAdminPanel) == IF isAdminPanel THEN "admin" ELSE "user"

\* ------------------------------------------------------- ConflictResolver
\* mergePropertyData(property1, property2): copy of property1, listed fields
\* taken from property2 where property1's is empty or 'N/A', claimed status
\* taken from property2, metadata refreshed.
mergePropertyData(property1, property2, now) ==
    [ property1 EXCEPT
        !.description =
            IF Truthy(property2.description)
               /\ (~Truthy(property1.description) \/ property1.description = "N/A")
            THEN property2.description ELSE property1.description,
        !.status = IF property2.status = "claimed" THEN "claimed" ELSE property1.status,
        !.lastUpdated = now,
        !.updatedBy = "merged" ]

\* "Add metadata if missing": the argument object is mutated in place
AddMetadata(p, isAdminPanel, now) ==
    IF p.lastUpdated = 0
    THEN [p EXCEPT !.lastUpdated = now, !.updatedBy = RoleName(isAdminPanel)]
    ELSE p

\* resolveConflict with the recency rule reversed
resolveConflictOlderWins(currentProperty, newProperty, isAdminPanel, now) ==
    LET cur == AddMetadata(currentProperty, isAdminPanel, now)
        new == AddMetadata(newProperty, isAdminPanel, now)
    IN IF new.updatedBy = "admin" /\ cur.updatedBy # "admin" THEN new
       ELSE IF newProperty.lastUpdated < currentProperty.lastUpdated THEN new
       ELSE IF newProperty.lastUpdated = currentProperty.lastUpdated
            THEN mergePropertyData(cur, new, now)
       ELSE cur

\* resolveConflict(currentProperty, newProperty)
resolveConflict(currentProperty, newProperty, isAdminPanel, now) ==
    LET currentExists == currentProperty.id # 0
        newExists == newProperty.id # 0
        currentTimestamp == currentProperty.lastUpdated
        newTimestamp == newProperty.lastUpdated
        cur == AddMetadata(currentProperty, isAdminPanel, now)
        new == AddMetadata(newProperty, isAdminPanel, now)
    IN IF ~currentExists /\ newExists THEN newProperty
       ELSE IF currentExists /\ ~newExists THEN NullProperty
       ELSE IF new.updatedBy = "admin" /\ cur.updatedBy # "admin" THEN new
       ELSE IF newTimestamp > currentTimestamp THEN new
       ELSE IF newTimestamp = currentTimestamp THEN mergePropertyData(cur, new, now)
       ELSE cur

\* index of the record with identifier id in a collection, 0 when none
\* (Array.prototype.findIndex / Map.has)
RECURSIVE FindFrom(_, _, _)
FindFrom(data, id, i) ==
    IF i > Len(data) THEN 0
    ELSE IF data[i].id = id THEN i
    ELSE FindFrom(data, id, i + 1)

findIndex(data, id) == FindFrom(data, id, 1)

\* new Map(currentData.map(p => [p.id, p])): values in first-insertion order,
\* a later entry with the same key replaces the value in place
RECURSIVE MapFrom(_, _)
MapFrom(data, map) ==
    IF data = <<>> THEN map
    ELSE LET p == Head(data)
             k == findIndex(map, p.id)
         IN MapFrom(Tail(data), IF k = 0 THEN Append(map, p) ELSE [map EXCEPT ![k] = p])

\* mergedData.sort((a, b) => a.id - b.id): stable insertion sort by id
RECURSIVE InsertById(_, _)
InsertById(sorted, p) ==
    IF sorted = <<>> THEN <<p>>
    ELSE IF p.id < Head(sorted).id THEN <<p>> \o sorted
    ELSE <<Head(sorted)>> \o InsertById(Tail(sorted), p)

RECURSIVE SortById(_)
SortById(data) ==
    IF data = <<>> THEN <<>>
    ELSE InsertById(SortById(SubSeq(data, 1, Len(data) - 1)), data[Len(data)])

\* newData.forEach(newProperty => ...): resolve or add, one entry at a time
RECURSIVE MergeEach(_, _, _, _)
MergeEach(currentMap, newData, isAdminPanel, now) ==
    IF newData = <<>> THEN currentMap
    ELSE LET newProperty == Head(newData)
             k == findIndex(currentMap, newProperty.id)
         IN MergeEach(
                IF k # 0
                THEN [currentMap EXCEPT
                        ![k] = resolveConflict(currentMap[k], newProperty, isAdminPanel, now)]
                ELSE Append(currentMap, newProperty),
                Tail(newData), isAdminPanel, now)

\* mergeData without its final sort, and without the local-only records
mergeDataUnsorted(currentData, newData, isAdminPanel, now) ==
    MergeEach(MapFrom(currentData, <<>>), newData, isAdminPanel, now)

mergeDataIncomingOnly(currentData, newData, isAdminPanel, now) ==
    SortById(MergeEach(
        SelectSeq(MapFrom(currentData, <<>>), LAMBDA p : findIndex(newData, p.id) # 0),
        newData, isAdminPanel, now))

\* mergeData(currentData, newData)
mergeData(currentData, newData, isAdminPanel, now) ==
    SortById(MergeEach(MapFrom(currentData, <<>>), newData, isAdminPanel, now))

\* ----------------------------------------------- ConflictResolver harness
IdsOf(data) == { data[i].id : i \in 1..Len(data) }

\* metadata of the records in the harness' collections: absent, or written
\* at MaxTs by a user or by the admin
CollectionMeta ==
    { <<0, "">>, <<MaxTs, "user">>, <<MaxTs, "admin">> }

CollectionProp(i, meta) ==
    [id |-> i, lastUpdated |-> meta[1], updatedBy |-> meta[2],
     description |-> "d", other |-> "", status |-> "unclaimed"]

RECURSIVE Ascending(_)
Ascending(D) ==
    IF D = {} THEN <<>>
    ELSE LET m == CHOOSE x \in D : \A y \in D : x <= y
         IN <<m>> \o Ascending(D \ {m})

\* collections over the identifiers D of at most MaxLen records, identifiers
\* unique and ascending (every collection the engine persists went through
\* add's max+1 or mergeData's sort)
CollectionsOver(D) ==
    UNION { { [k \in 1..Cardinality(E) |-> CollectionProp(Ascending(E)[k], f[Ascending(E)[k]])] :
                f \in [E -> CollectionMeta] } :
            E \in { E \in SUBSET D : Cardinality(E) <= MaxLen } }

Collections == CollectionsOver(Ids)

Disjoint(a, b) == IdsOf(a) \cap IdsOf(b) = {}

HarnessIdle ==
    /\ hStage = "idle" /\ hAdmin = FALSE /\ hNow = 0
    /\ hCurrent = NullProperty /\ hNew = NullProperty
    /\ hResolved = NullProperty
    /\ hLocal = <<>> /\ hIncoming = <<>> /\ hOther = <<>>
    /\ hMergedA = <<>> /\ hMergedB = <<>>

\* two versions of the same record, any role, the clock not behind MaxTs
InitResolve ==
    /\ hStage = "init"
    /\ hAdmin \in BOOLEAN
    /\ hNow \in {MaxTs, MaxTs + 1}
    /\ hCurrent \in PropertySet
    /\ hNew \in { p \in PropertySet : p.id = hCurrent.id }
    /\ hResolved = NullProperty
    /\ hLocal = <<>> /\ hIncoming = <<>> /\ hOther = <<>>
    /\ hMergedA = <<>> /\ hMergedB = <<>>

ResolveCall ==
    /\ hStage = "init"
    /\ hStage' = "resolved"
    /\ hResolved' = resolveConflict(hCurrent, hNew, hAdmin, hNow)
    /\ UNCHANGED <<hAdmin, hNow, hCurrent, hNew,
                   hLocal, hIncoming, hOther, hMergedA, hMergedB>>
    /\ UNCHANGED <<envVars, pageVars, postVars, engineVars>>

\* a local collection and two incoming ones; the second incoming collection
\* is only used for additions, so it shares no identifier with the others
InitMerge ==
    /\ hStage = "init"
    /\ hAdmin \in BOOLEAN
    /\ hNow \in {MaxTs, MaxTs + 1}
    /\ hCurrent = NullProperty /\ hNew = NullProperty
    /\ hResolved = NullProperty
    /\ hLocal \in Collections
    /\ hIncoming \in Collections
    /\ hOther \in IF Disjoint(hLocal, hIncoming)
                   THEN CollectionsOver(Ids \ (IdsOf(hLocal) \cup IdsOf(hIncoming)))
                   ELSE { <<>> }
    /\ hMergedA = <<>> /\ hMergedB = <<>>

MergeFrame ==
    /\ UNCHANGED <<hAdmin, hNow, hCurrent, hNew, hResolved,
                   hLocal, hIncoming, hOther>>
    /\ UNCHANGED <<envVars, pageVars, postVars, engineVars>>

\* mergeData(S, S)
MergeSelfCall ==
    /\ hStage = "init"
    /\ hStage' = "self"
    /\ hMergedA' = mergeData(hLocal, hLocal, hAdmin, hNow)
    /\ hMergedB' = hLocal
    /\ MergeFrame

\* mergeData(S, I) and mergeData(I, S)
MergePairCall ==
    /\ hStage = "init"
    /\ hStage' = "pair"
    /\ hMergedA' = mergeData(hLocal, hIncoming, hAdmin, hNow)
    /\ hMergedB' = mergeData(hIncoming, hLocal, hAdmin, hNow)
    /\ MergeFrame

\* mergeData(mergeData(S, I), J) and mergeData(mergeData(S, J), I)
MergeTwoCall ==
    /\ hStage = "init"
    /\ hStage' = "two"
    /\ hMergedA' = mergeData(mergeData(hLocal, hIncoming, hAdmin, hNow),
                            hOther, hAdmin, hNow)
    /\ hMergedB' = mergeData(mergeData(hLocal, hOther, hAdmin, hNow),
                            hIncoming, hAdmin, hNow)
    /\ MergeFrame

\* ------------------------------------- Cloudinary upload helper (part_004)
\* the two copies of the helper: part_003 (fixed 3 attempts, 300 ms unit)
\* and part_004 (attempts and base delay from window.config.deployment)
UploadVariants == {"part_003", "part_004"}

MaxAttempts == 3

DefaultAttempts == 3

DefaultDelay == 1000

BackoffUnit == 300

JitterRange == 1000

\* window.config.deployment: absent, or giving retryAttempts and retryDelay
NoDeployment == [present |-> FALSE, retryAttempts |-> 0, retryDelay |-> 0]

Deployments ==
    {NoDeployment}
    \cup { [present |-> TRUE, retryAttempts |-> n, retryDelay |-> dl] :
              n \in 0..MaxAttempts, dl \in {100, DefaultDelay} }

\* how one _uploadOnce(file) settles: resolved, rejected with a network
\* error, or rejected with a message holding 'Invalid file type'
UploadOutcomes == {"ok", "network", "invalidType"}

NoUpload ==
    [pc |-> "idle", variant |-> "part_003", maxAttempts |-> 0, baseDelay |-> 0,
     attempt |-> 0, calls |-> 0, delays |-> <<>>, lastErr |-> "null",
     result |-> "none", thrown |-> "null"]

RECURSIVE Pow2(_)
Pow2(n) == IF n = 0 THEN 1 ELSE 2 * Pow2(n - 1)

\* the attempt counter after a failed attempt, left as it is
SameAttempt(attempt) == attempt

\* attempt++
NextAttempt(attempt) == attempt + 1

\* the backoff after the attempt-th failure
Backoff(u, jitter) ==
    IF u.variant = "part_003" THEN Pow2(u.attempt) * BackoffUnit
    ELSE u.baseDelay * Pow2(u.attempt) + jitter

\* the error messages that end the retries at once (part_004 only)
NoRetry(u) == u.variant = "part_004" /\ u.lastErr = "invalidType"

\* the `while (attempt < maxAttempts)` test
LoopTest(u) ==
    IF u.attempt < u.maxAttempts THEN [u EXCEPT !.pc = "attempting"]
    ELSE [u EXCEPT !.pc = "fallback"]

\* uploadToCloudinary(file) for a file that passes the validation; part_004
\* throws at once when navigator.onLine is false
UploadCall(variant, cfg) ==
    /\ upload.pc \in {"idle", "done"}
    /\ upload' =
         LET u == [NoUpload EXCEPT
                     !.variant = variant,
                     !.maxAttempts =
                         IF variant = "part_004" /\ cfg.present
                         THEN cfg.retryAttempts ELSE DefaultAttempts,
                     !.baseDelay =
                         IF variant = "part_004" /\ cfg.present
                         THEN cfg.retryDelay ELSE DefaultDelay]
         IN IF variant = "part_004" /\ ~onLine
            THEN [u EXCEPT !.pc = "done", !.result = "threw",
                           !.thrown = "offline"]
            ELSE LoopTest(u)
    /\ UNCHANGED <<harnessVars, realtime, envVars, postVars, engineVars>>

\* `await _uploadOnce(file, onProgress)` settles; after a failure that may
\* be retried the backoff is computed (jitter: Math.random() * 1000) and
\* its timer is set
UploadOnce(outcome, jitter) ==
    /\ upload.pc = "attempting"
    /\ upload' =
         LET called == [upload EXCEPT !.calls = @ + 1]
             failed == [called EXCEPT !.lastErr = outcome,
                                      !.attempt = NextAttempt(@)]
         IN IF outcome = "ok"
            THEN [called EXCEPT !.pc = "done", !.result = "uploaded"]
            ELSE IF NoRetry(failed) THEN [failed EXCEPT !.pc = "fallback"]
            ELSE [failed EXCEPT !.pc = "waiting",
                                !.delays = Append(@, Backoff(failed, jitter))]
    /\ UNCHANGED <<harnessVars, realtime, envVars, postVars, engineVars>>

\* the backoff timer fires
UploadResume ==
    /\ upload.pc = "waiting"
    /\ upload' = LoopTest(upload)
    /\ UNCHANGED <<harnessVars, realtime, envVars, postVars, engineVars>>

\* `await fileToBase64(file)` settles
UploadFallback(ok) ==
    /\ upload.pc = "fallback"
    /\ upload' =
         IF ok THEN [upload EXCEPT !.pc = "done", !.result = "fallback"]
         ELSE [upload EXCEPT !.pc = "done", !.result = "threw",
                             !.thrown = IF upload.lastErr # "null"
                                        THEN upload.lastErr ELSE "reader"]
    /\ UNCHANGED <<harnessVars, realtime, envVars, postVars, engineVars>>

\* -------------------------------------- realtime subscription (realtime.js)
\* the subscription manager of realtime.js lines 7-166 (the one with
\* unsubscribe and the status callback)
MaxChannels == 2

MaxTimers == 3

\* window.supabaseClient as subscribePosts finds it: missing, without a
\* channel method, working, or with a channel method that throws
ClientKinds == {"none", "noChannel", "ok", "throws"}

\* `channel` and `polling` are 0 for null, else the number of the channel
\* object or of the interval timer; `timers` are the interval timers set and
\* not cleared; `unsubscribed` says that unsubscribe() was called and
\* subscribePosts has not been called since (bookkeeping)
RealtimeIdle ==
    [pc |-> "idle", client |-> "none", channel |-> 0, polling |-> 0,
     active |-> FALSE, timers |-> {}, created |-> 0, made |-> 0,
     unsubscribed |-> FALSE]

\* startPolling with the `if (polling) return` left out
startPollingAgain(rt) ==
    [rt EXCEPT !.made = @ + 1, !.polling = rt.made + 1,
               !.timers = @ \cup {rt.made + 1}]

\* startPolling(onInsert)
startPolling(rt) ==
    IF rt.polling # 0 THEN rt
    ELSE [rt EXCEPT !.made = @ + 1, !.polling = rt.made + 1,
                    !.timers = @ \cup {rt.made + 1}]

\* stopPolling()
stopPolling(rt) ==
    IF rt.polling # 0
    THEN [rt EXCEPT !.timers = @ \ {rt.polling}, !.polling = 0]
    ELSE rt

\* the rest of subscribePosts once no old channel is left: the new channel
\* is created and subscribed, or the catch starts polling
createChannel(rt) ==
    IF rt.client = "throws" THEN startPolling([rt EXCEPT !.pc = "idle"])
    ELSE [rt EXCEPT !.pc = "idle", !.created = @ + 1, !.channel = rt.created + 1]

RealtimeFrame == UNCHANGED <<harnessVars, upload, envVars, postVars, engineVars>>

\* subscribePosts(...) up to its first await
SubscribePosts(client) ==
    /\ realtime.pc = "idle"
    /\ realtime.created < MaxChannels
    /\ realtime' =
         LET rt == [realtime EXCEPT !.client = client, !.unsubscribed = FALSE]
         IN IF client \in {"none", "noChannel"} THEN startPolling(rt)
            ELSE IF rt.channel # 0 THEN [rt EXCEPT !.pc = "removing"]
            ELSE createChannel(rt)
    /\ realtime'.made <= MaxTimers
    /\ RealtimeFrame

\* `await window.supabaseClient.removeChannel(channel)` settles
SubscribeResume ==
    /\ realtime.pc = "removing"
    /\ realtime' = createChannel([realtime EXCEPT !.channel = 0])
    /\ realtime'.made <= MaxTimers
    /\ RealtimeFrame

\* the callback given to subscribe() is called with a status by channel c:
\* SUBSCRIBED by the channel in use, CLOSED or CHANNEL_ERROR by any channel
\* created so far, removed ones included
StatusCallback(c, status) ==
    /\ c \in 1..realtime.created
    /\ status = "SUBSCRIBED" => c = realtime.channel
    /\ realtime' =
         IF status = "SUBSCRIBED"
         THEN stopPolling([realtime EXCEPT !.active = TRUE])
         ELSE startPolling([realtime EXCEPT !.active = FALSE])
    /\ realtime'.made <= MaxTimers
    /\ RealtimeFrame

\* the 'error' or 'close' handler of channel c runs
ChannelEvent(c) ==
    /\ c \in 1..realtime.created
    /\ realtime' = startPolling([realtime EXCEPT !.active = FALSE])
    /\ realtime'.made <= MaxTimers
    /\ RealtimeFrame

\* the interval timer t fires
PollTick(t) ==
    /\ t \in realtime.timers
    /\ realtime' = IF realtime.active THEN stopPolling(realtime) ELSE realtime
    /\ RealtimeFrame

\* unsubscribe()
Unsubscribe ==
    /\ realtime' =
         LET removed == IF realtime.channel # 0 /\ realtime.client # "none"
                        THEN [realtime EXCEPT !.channel = 0] ELSE realtime
         IN [stopPolling(removed) EXCEPT !.active = FALSE, !.unsubscribed = TRUE]
    /\ RealtimeFrame

\* window.realtime.stopPolling()
StopPolling ==
    /\ realtime' = stopPolling(realtime)
    /\ RealtimeFrame

PageIdle == upload = NoUpload /\ realtime = RealtimeIdle

\* ------------------------------------------------------------ environment
EnvIdle == onLine = TRUE /\ clock = 1

\* the wall clock advances
Tick ==
    /\ clock < MaxClock
    /\ clock' = clock + 1
    /\ UNCHANGED <<onLine, harnessVars, pageVars, postVars, engineVars>>

\* ----------------------------------------- post offline queue (part_000)
\* the processQueue() invocations that may be in progress at once: one per
\* 'online' event or on-demand call that has not returned yet
Runs == {"run1", "run2"}

\* op types callers enqueue: 'insert' and 'delete' are replayed against the
\* remote collaborator, any other type (diagnostics enqueue 'test') is not
OpTypes == {"insert", "delete", "test"}

IdleRun == [pc |-> "idle", copy |-> <<>>, i |-> 0]

PostsIdle ==
    /\ pqStored = <<>> /\ queue = <<>> /\ remoteLog = <<>> /\ opCount = 0
    /\ runs = [p \in Runs |-> IdleRun]

\* queue.filter(q => q.ts !== item.ts)
FilterTs(q, ts) == SelectSeq(q, LAMBDA e : e.ts # ts)

\* the loop of processQueue from item i of the copy up to its next await:
\* an item that is neither insert nor delete awaits nothing, is filtered out
\* of the queue and the queue is saved; an insert or delete suspends the
\* invocation on the remote call
RECURSIVE ContinueQueue(_, _, _, _)
ContinueQueue(q, stored, copy, i) ==
    IF i > Len(copy) THEN [queue |-> q, stored |-> stored, run |-> IdleRun]
    ELSE IF copy[i].type \in {"insert", "delete"}
         THEN [queue |-> q, stored |-> stored,
               run |-> [pc |-> "await", copy |-> copy, i |-> i]]
         ELSE ContinueQueue(FilterTs(q, copy[i].ts), FilterTs(q, copy[i].ts),
                            copy, i + 1)

\* offlineQueue.add(op): stamp, push, save. save() catches a setItem that
\* throws (full: the storage quota is exceeded) and the key keeps its value
QueueAdd(type, full) ==
    /\ opCount < MaxOps
    /\ LET op == [type |-> type, ts |-> clock, n |-> opCount + 1]
       IN /\ queue' = Append(queue, op)
          /\ pqStored' = IF full THEN pqStored ELSE Append(queue, op)
    /\ opCount' = opCount + 1
    /\ UNCHANGED <<runs, remoteLog, harnessVars, pageVars, envVars, engineVars>>

\* processQueue() is entered: nothing happens while offline; load(); return
\* when empty; else copy the queue and run to the first await
ProcessQueueStart(p) ==
    /\ runs[p].pc = "idle"
    /\ onLine
    /\ LET r == ContinueQueue(pqStored, pqStored, pqStored, 1)
       IN /\ queue' = r.queue
          /\ pqStored' = r.stored
          /\ runs' = [runs EXCEPT ![p] = r.run]
    /\ UNCHANGED <<remoteLog, opCount, harnessVars, pageVars, envVars, engineVars>>

\* the awaited supabaseHelper call settles. insertPost/deletePost resolve
\* with {error: null} ("ok") or with {error} ("error"): either way the await
\* returns normally, the entry is filtered out and the queue saved. A call
\* that throws (helper not installed yet) is caught and the entry kept.
ProcessQueueResume(p, outcome) ==
    /\ runs[p].pc = "await"
    /\ LET item == runs[p].copy[runs[p].i]
           r == IF outcome = "throw"
                THEN ContinueQueue(queue, pqStored, runs[p].copy, runs[p].i + 1)
                ELSE ContinueQueue(FilterTs(queue, item.ts), FilterTs(queue, item.ts),
                                   runs[p].copy, runs[p].i + 1)
       IN /\ queue' = r.queue
          /\ pqStored' = r.stored
          /\ runs' = [runs EXCEPT ![p] = r.run]
          /\ remoteLog' = IF outcome = "ok" THEN Append(remoteLog, item.n) ELSE remoteLog
    /\ UNCHANGED <<opCount, harnessVars, pageVars, envVars, engineVars>>

\* the platform's connectivity signals, as the post queue sees them (its
\* 'online' listener is the ProcessQueueStart above)
PostsGoOffline ==
    /\ onLine /\ onLine' = FALSE
    /\ UNCHANGED <<clock, harnessVars, pageVars, postVars, engineVars>>

PostsGoOnline ==
    /\ ~onLine /\ onLine' = TRUE
    /\ UNCHANGED <<clock, harnessVars, pageVars, postVars, engineVars>>

\* ------------------------------- PropertySyncManager (src/sync-manager.js)
\* Logging (logSyncEvent) and the status key written by updateSyncStatus
\* change nothing the engine reads back and are left out; logSyncEvent is
\* taken to return normally (its 'debug' branch reads process.env, which the
\* build defines).
Replicas == {"admin", "user"}

\* the identifiers callers pass to update() and delete()
UpdateIds == 1..2

\* window.location.pathname.includes('lost_properties.html')
isAdminPanel(r) == r = "admin"

\* the object a caller hands to add(): no id yet, no metadata
NewProperty ==
    [id |-> 0, lastUpdated |-> 0, updatedBy |-> "", description |-> "d",
     other |-> "", status |-> "unclaimed"]

\* the records the two pages' users enter: they differ in every field
NewPropertyOf(r) ==
    IF isAdminPanel(r)
    THEN [NewProperty EXCEPT !.description = "N/A", !.other = "o"]
    ELSE NewProperty

\* the new version of record i a caller hands to update([...])
UpdatedProperty(i) ==
    [id |-> i, lastUpdated |-> 0, updatedBy |-> "", description |-> "d",
     other |-> "o", status |-> "claimed"]

\* { id: propertyId }, the payload delete() queues
IdOnly(i) == [NullProperty EXCEPT !.id = i]

\* a payload: `array` tells an Array from a plain object (an Array has no
\* own `id`), `items` are the records it holds
ObjectData(p) == [array |-> FALSE, items |-> <<p>>]

ArrayData(data) == [array |-> TRUE, items |-> data]

\* change.data.id: undefined (0) on an Array and on an entry without data
DataId(data) ==
    IF data.array \/ data.items = <<>> THEN 0 ELSE data.items[1].id

\* currentData.reduce((max, p) => p.id > max ? p.id : max, 0)
RECURSIVE MaxIdOf(_)
MaxIdOf(data) ==
    IF data = <<>> THEN 0
    ELSE LET m == MaxIdOf(Tail(data))
         IN IF Head(data).id > m THEN Head(data).id ELSE m

\* currentData.splice(index, 1)
Splice(data, index) ==
    SubSeq(data, 1, index - 1) \o SubSeq(data, index + 1, Len(data))

\* applyChange(currentData, change): the returned collection.  An 'update'
\* looks for p.id === change.data.id and stores change.data at that index.
applyChange(currentData, change) ==
    IF change.type = "add"
    THEN Append(currentData,
                [change.data.items[1] EXCEPT !.id = MaxIdOf(currentData) + 1])
    ELSE IF change.type = "update"
    THEN LET updateIndex == findIndex(currentData, DataId(change.data))
         IN IF updateIndex # 0
            THEN [currentData EXCEPT ![updateIndex] = change.data.items[1]]
            ELSE currentData
    ELSE IF change.type = "delete"
    THEN LET deleteIndex == findIndex(currentData, DataId(change.data))
         IN IF deleteIndex # 0 THEN Splice(currentData, deleteIndex)
            ELSE currentData
    ELSE currentData

\* applyChange's side effect on the queued entry: `change.data.id = maxId + 1`
ChangeAfterApply(currentData, change) ==
    IF change.type = "add"
    THEN [change EXCEPT !.data.items[1].id = MaxIdOf(currentData) + 1]
    ELSE change

\* What one handler sees and leaves behind: localStorage, the fields of the
\* manager `self`, the messages it posted (`out`), whether the call in
\* progress threw, and how many times the handler has entered
\* handleDataUpdate (`calls`).  `full` says that localStorage.setItem throws while the
\* handler runs (the storage quota is reached).
World(r, full) ==
    [self |-> r, full |-> full, hasStore |-> hasStore, store |-> store,
     lastUpdateKey |-> lastUpdateKey, queueKey |-> queueKey,
     adminOnlineKey |-> adminOnlineKey,
     offlineQueue |-> offlineQueue[r], lastKnownUpdate |-> lastKnownUpdate[r],
     syncStatus |-> syncStatus[r], applyCount |-> applyCount,
     broadcastChannel |-> broadcastChannel[r],
     consecutiveFailures |-> consecutiveFailures[r],
     unknownLogged |-> unknownLogged[r], reentered |-> reentered[r],
     out |-> <<>>, threw |-> FALSE, result |-> "none", calls |-> 0]

\* getCurrentData when each page keeps its collection under a key of its
\* own: the user page never sees what the admin page stored
getCurrentDataPerPage(w) ==
    IF w.hasStore /\ isAdminPanel(w.self) THEN w.store ELSE <<>>

\* getCurrentData()
getCurrentData(w) == IF w.hasStore THEN w.store ELSE <<>>

\* updateSyncStatus(status)
updateSyncStatus(w, status) == [w EXCEPT !.syncStatus = status]

\* this.broadcastChannel.postMessage(message)
postMessage(w, message) ==
    IF w.broadcastChannel = "throwing" THEN [w EXCEPT !.threw = TRUE]
    ELSE [w EXCEPT !.out = Append(@, message)]

\* sendBroadcast without its try/catch
sendBroadcastUncaught(w, message) ==
    IF w.broadcastChannel = "null" THEN w ELSE postMessage(w, message)

\* sendBroadcast(message): a postMessage error is logged, not rethrown
sendBroadcast(w, message) ==
    IF w.broadcastChannel = "null" THEN w
    ELSE LET posted == postMessage(w, message)
         IN IF posted.threw THEN [posted EXCEPT !.threw = FALSE] ELSE posted

Message(type, data, timestamp, source) ==
    [type |-> type, data |-> data, timestamp |-> timestamp, source |-> source]

\* fallbackSyncRequest(): the request key is set and removed again, then
\* LAST_UPDATE_KEY is overwritten; a setItem error is logged
fallbackSyncRequest(w) ==
    IF w.full THEN w ELSE [w EXCEPT !.lastUpdateKey = clock]

\* requestSync(): on the channel whenever the manager has one, else through
\* storage
requestSync(w) ==
    IF w.broadcastChannel # "null"
    THEN sendBroadcast(w, Message("sync_request", <<>>, clock,
                                  RoleName(isAdminPanel(w.self))))
    ELSE fallbackSyncRequest(w)

\* saveData(data): both keys and lastKnownUpdate, or the setItem error rethrown
saveData(w, data) ==
    IF w.full THEN [w EXCEPT !.threw = TRUE]
    ELSE [w EXCEPT !.hasStore = TRUE, !.store = data,
                   !.lastUpdateKey = clock, !.lastKnownUpdate = clock]

\* notifyDataChanged(data): the 'propertiesUpdated' event runs the manager's
\* own listener (setupCustomEvents -> requestSync), then the status is set
notifyDataChanged(w) == updateSyncStatus(requestSync(w), "synced")

\* broadcastChange(data)
broadcastChange(w, data) ==
    LET sent == IF w.broadcastChannel # "null"
                THEN sendBroadcast(w, Message("data_update", data, clock,
                                              RoleName(isAdminPanel(w.self))))
                ELSE w
    IN IF sent.threw THEN [sent EXCEPT !.threw = FALSE]
       ELSE IF w.full THEN sent
       ELSE [sent EXCEPT !.lastUpdateKey = clock]

\* saveOfflineQueue(): a failed setItem is logged and swallowed
saveOfflineQueue(w) ==
    IF w.full THEN w ELSE [w EXCEPT !.queueKey = w.offlineQueue]

\* the forEach of processOfflineQueue from index i on; `processed` collects
\* processedChanges
RECURSIVE DrainFrom(_, _, _)
DrainFrom(w, i, processed) ==
    IF i > Len(w.offlineQueue) THEN [world |-> w, processed |-> processed]
    ELSE LET change == w.offlineQueue[i]
             currentData == getCurrentData(w)
             updatedData == applyChange(currentData, change)
             touched == [w EXCEPT !.offlineQueue[i] =
                                      ChangeAfterApply(currentData, change)]
             saved == saveData(touched, updatedData)
         IN IF saved.threw
            THEN DrainFrom(touched, i + 1, processed)
            ELSE DrainFrom(
                     [notifyDataChanged(saved) EXCEPT
                        !.applyCount =
                            IF change.n = 0 THEN @
                            ELSE [@ EXCEPT ![change.n] = @ + 1]],
                     i + 1, processed \cup {i})

\* this.offlineQueue.filter((_, index) => !processedChanges.includes(index))
RECURSIVE Unprocessed(_, _, _)
Unprocessed(q, processed, i) ==
    IF i > Len(q) THEN <<>>
    ELSE (IF i \in processed THEN <<>> ELSE <<q[i]>>)
         \o Unprocessed(q, processed, i + 1)

\* processOfflineQueue() after its two early returns
drainQueue(w) ==
    LET d == DrainFrom(w, 1, {})
        filtered == [d.world EXCEPT
                       !.offlineQueue = Unprocessed(@, d.processed, 1)]
    IN requestSync(saveOfflineQueue(filtered))

\* processOfflineQueue()
processOfflineQueue(w) ==
    IF ~onLine THEN w
    ELSE IF w.offlineQueue = <<>> THEN w
    ELSE drainQueue(w)

\* propertiesEqual(prop1, prop2): JSON.stringify compares every field
propertiesEqual(prop1, prop2) == prop1 = prop2

\* detectConflicts(currentData, newData): the records both sides hold
\* (by the Maps built from them) that differ, in the order of allIds
RECURSIVE ConflictsFrom(_, _, _)
ConflictsFrom(currentMap, newMap, i) ==
    IF i > Len(currentMap) THEN <<>>
    ELSE LET k == findIndex(newMap, currentMap[i].id)
         IN (IF k # 0 /\ ~propertiesEqual(currentMap[i], newMap[k])
             THEN << <<currentMap[i], newMap[k]>> >> ELSE <<>>)
            \o ConflictsFrom(currentMap, newMap, i + 1)

detectConflicts(currentData, newData) ==
    ConflictsFrom(MapFrom(currentData, <<>>), MapFrom(newData, <<>>), 1)

\* the entries queueConflictingChanges pushes: they carry `conflict`, no `data`
RECURSIVE ConflictEntries(_)
ConflictEntries(conflicts) ==
    IF conflicts = <<>> THEN <<>>
    ELSE << [type |-> "conflict",
             data |-> [array |-> FALSE, items |-> <<>>],
             conflict |-> Head(conflicts), timestamp |-> clock, n |-> 0] >>
         \o ConflictEntries(Tail(conflicts))

\* queueConflictingChanges(conflicts, newData)
queueConflictingChanges(w, conflicts) ==
    saveOfflineQueue([w EXCEPT !.offlineQueue = @ \o ConflictEntries(conflicts)])

\* mergeData adds the missing metadata to the records of newData it compares
\* with a stored record: the incoming array as the merge leaves it
RECURSIVE TouchedByMerge(_, _, _)
TouchedByMerge(currentData, newData, r) ==
    IF newData = <<>> THEN <<>>
    ELSE <<(IF findIndex(currentData, Head(newData).id) # 0
            THEN AddMetadata(Head(newData), isAdminPanel(r), clock)
            ELSE Head(newData))>>
         \o TouchedByMerge(currentData, Tail(newData), r)

\* isAdminOnline(): the admin heartbeat is younger than the threshold
AdminOnlineThreshold == 15000

isAdminOnline(w) ==
    w.adminOnlineKey # 0 /\ clock - w.adminOnlineKey < AdminOnlineThreshold

\* requestConflictResolution(conflicts, newData)
requestConflictResolution(w, conflicts, newData) ==
    IF isAdminPanel(w.self) THEN w
    ELSE sendBroadcast(w, Message("conflict_resolution_request", newData, clock, "user"))

\* a payload that is no collection (null, a string, a plain object): the
\* model's value for it. newData.forEach (mergeData) and newData.map
\* (detectConflicts) throw a TypeError on it
NotACollection == <<[NullProperty EXCEPT !.id = -1]>>

Malformed(data) == data = NotACollection

RECURSIVE handleDataUpdate(_, _, _, _)

\* handleConflict(newData, newTimestamp, source); the outer catch logs what
\* detectConflicts or a nested call throws
handleConflict(w, newData, newTimestamp, source) ==
    LET currentData == getCurrentData(w)
        conflicts == detectConflicts(currentData, newData)
        nested == handleDataUpdate(w, newData, newTimestamp, source)
    IN IF Malformed(newData) THEN w
       ELSE IF conflicts = <<>> \/ source = "admin"
       THEN [nested EXCEPT !.threw = FALSE, !.reentered = TRUE]
       ELSE LET mergedData ==
                    mergeData(currentData, newData, isAdminPanel(w.self), clock)
                saved == saveData(w, mergedData)
            IN IF ~saved.threw THEN notifyDataChanged(saved)
               ELSE IF isAdminOnline(w)
                    THEN requestConflictResolution(w, conflicts, newData)
                    ELSE queueConflictingChanges(w, conflicts)

\* the body of handleDataUpdate once the timestamp is accepted; `known` is
\* the manager after `this.lastKnownUpdate = timestamp`.  The catch is
\* entered when mergeData throws (a payload that is no collection) or
\* saveData fails
ApplyUpdate(known, data, timestamp, source) ==
    LET currentData == getCurrentData(known)
        mergedData == mergeData(currentData, data, isAdminPanel(known.self), clock)
        saved == saveData(known, mergedData)
    IN IF Malformed(data) THEN handleConflict(known, data, timestamp, source)
       ELSE IF saved.threw
       THEN handleConflict(known, TouchedByMerge(currentData, data, known.self),
                           timestamp, source)
       ELSE LET stamped == [notifyDataChanged(saved) EXCEPT
                               !.lastUpdateKey = timestamp]
            IN IF isAdminPanel(known.self)
               THEN sendBroadcast(stamped,
                        Message("sync_response", mergedData, clock, ""))
               ELSE stamped

\* the depth of nested handleDataUpdate calls at which the engine's call
\* stack is taken to be used up ('Maximum call stack size exceeded')
MaxCalls == 3

\* handleDataUpdate with lastKnownUpdate left as it is until saveData sets it
handleDataUpdateMarkerLate(w, data, timestamp, source) ==
    IF w.calls >= MaxCalls THEN [w EXCEPT !.threw = TRUE]
    ELSE IF timestamp <= w.lastKnownUpdate THEN [w EXCEPT !.calls = @ + 1]
    ELSE ApplyUpdate([w EXCEPT !.calls = @ + 1], data, timestamp, source)

\* handleDataUpdate(data, timestamp, source)
handleDataUpdate(w, data, timestamp, source) ==
    IF w.calls >= MaxCalls THEN [w EXCEPT !.threw = TRUE]
    ELSE IF timestamp <= w.lastKnownUpdate THEN [w EXCEPT !.calls = @ + 1]
    ELSE ApplyUpdate([w EXCEPT !.calls = @ + 1, !.lastKnownUpdate = timestamp],
                     data, timestamp, source)

\* handleSyncRequest(source)
handleSyncRequest(w) ==
    IF ~isAdminPanel(w.self) THEN w
    ELSE sendBroadcast(w, Message("sync_response", getCurrentData(w), clock, "admin"))

\* handleSyncResponse(data, timestamp)
handleSyncResponse(w, data, timestamp) ==
    IF isAdminPanel(w.self) THEN w
    ELSE handleDataUpdate(w, data, timestamp, "admin")

\* handleAdminOnline(timestamp)
handleAdminOnline(w) == IF isAdminPanel(w.self) THEN w ELSE requestSync(w)

\* handlePing(source)
handlePing(w) ==
    sendBroadcast(w, Message("pong", <<>>, 0, RoleName(isAdminPanel(w.self))))

\* handlePong(source)
handlePong(w) == updateSyncStatus(w, "connected")

\* handleConflictResolution(propertyId, resolution): the record found under
\* propertyId is replaced by `resolution` as it came; a failed save is logged
handleConflictResolution(w, propertyId, resolution) ==
    LET currentData == getCurrentData(w)
        propertyIndex == findIndex(currentData, propertyId)
        saved == saveData(w, [currentData EXCEPT ![propertyIndex] = resolution])
    IN IF propertyIndex = 0 THEN w
       ELSE IF saved.threw THEN [saved EXCEPT !.threw = FALSE]
       ELSE notifyDataChanged(saved)

\* handleAdminOffline()
handleAdminOffline(w) ==
    IF isAdminPanel(w.self) THEN w ELSE updateSyncStatus(w, "admin_offline")

\* loadAndSyncData()
loadAndSyncData(w) ==
    IF w.hasStore /\ w.lastUpdateKey > w.lastKnownUpdate
    THEN notifyDataChanged([w EXCEPT !.lastKnownUpdate = w.lastUpdateKey])
    ELSE w

\* forcePollingSync()
forcePollingSync(w) ==
    IF w.lastUpdateKey > w.lastKnownUpdate THEN loadAndSyncData(w) ELSE w

\* triggerFallbackSync()
triggerFallbackSync(w) ==
    updateSyncStatus(forcePollingSync(fallbackSyncRequest(w)), "degraded")

\* this.POLLING_INTERVAL
POLLING_INTERVAL == 5000

Min(a, b) == IF a < b THEN a ELSE b

Max(a, b) == IF a > b THEN a ELSE b

\* this.isPrimarySync: set when the channel was constructed
isPrimarySync(w) == w.broadcastChannel # "null"

\* the interval with the test of the failure count left out of the first
\* branch
getPollingIntervalPrimaryFirst(w) ==
    IF isPrimarySync(w) THEN Min(10000, POLLING_INTERVAL * 2)
    ELSE IF w.consecutiveFailures > 0 THEN Max(1000, POLLING_INTERVAL \div 2)
    ELSE POLLING_INTERVAL

\* getAdaptivePollingInterval()
getAdaptivePollingInterval(w) ==
    IF isPrimarySync(w) /\ w.consecutiveFailures = 0
    THEN Min(10000, POLLING_INTERVAL * 2)
    ELSE IF w.consecutiveFailures > 0 THEN Max(1000, POLLING_INTERVAL \div 2)
    ELSE POLLING_INTERVAL

\* the value null posted on the channel (the model's value for it; no
\* message of the code has this type): reading message.type throws
NullMessage == Message("null", <<>>, 0, "")

\* a conflict_resolution message
ResolutionMessage(propertyId, resolution) ==
    [type |-> "conflict_resolution", data |-> <<>>, timestamp |-> 0,
     source |-> "admin", propertyId |-> propertyId, resolution |-> resolution]

\* a message of a type the switch has no case for, taken as a failure
handleUnknownTypeAsFailure(w, message) == [w EXCEPT !.threw = TRUE]

\* the default branch of the switch: the type is logged
handleUnknownType(w, message) == [w EXCEPT !.unknownLogged = TRUE]

\* the switch of handleBroadcastMessage
Dispatch(w, message) ==
    IF message.type = "data_update"
    THEN handleDataUpdate(w, message.data, message.timestamp, message.source)
    ELSE IF message.type = "sync_request" THEN handleSyncRequest(w)
    ELSE IF message.type = "sync_response"
    THEN handleSyncResponse(w, message.data, message.timestamp)
    ELSE IF message.type = "conflict_resolution"
    THEN handleConflictResolution(w, message.propertyId, message.resolution)
    ELSE IF message.type = "admin_online" THEN handleAdminOnline(w)
    ELSE IF message.type = "admin_offline" THEN handleAdminOffline(w)
    ELSE IF message.type = "ping" THEN handlePing(w)
    ELSE IF message.type = "pong" THEN handlePong(w)
    ELSE handleUnknownType(w, message)

\* handleBroadcastMessage(message): the switch inside try; on normal return
\* the failure count is reset, in the catch it is incremented and from three
\* on the status is set and the fallback triggered
handleBroadcastMessage(w, message) ==
    LET handled == IF message = NullMessage THEN [w EXCEPT !.threw = TRUE]
                   ELSE Dispatch(w, message)
        failed == [handled EXCEPT !.threw = FALSE, !.consecutiveFailures = @ + 1]
    IN IF ~handled.threw THEN [handled EXCEPT !.consecutiveFailures = 0]
       ELSE IF failed.consecutiveFailures >= 3
       THEN triggerFallbackSync(updateSyncStatus(failed, "degraded"))
       ELSE failed

\* sendAdminHeartbeat(): a setItem error skips the broadcast
sendAdminHeartbeat(w) ==
    IF w.full THEN w
    ELSE LET beat == [w EXCEPT !.adminOnlineKey = clock]
         IN IF beat.broadcastChannel # "null"
            THEN sendBroadcast(beat, Message("admin_online", <<>>, clock, ""))
            ELSE beat

\* periodicSyncCheck(): the setInterval callback
periodicSyncCheck(w) ==
    LET checked == IF w.lastUpdateKey > w.lastKnownUpdate THEN requestSync(w)
                   ELSE w
    IN IF isAdminPanel(w.self) THEN sendAdminHeartbeat(checked) ELSE checked

\* the storage keys whose 'storage' events handleStorageEvent looks at
StorageKeys == {"lastUpdate", "adminOnline"}

\* handleStorageEvent(event), for an event carrying a value (no code removes
\* either key while a manager is open)
handleStorageEvent(w, key, newValue) ==
    IF key = "lastUpdate"
    THEN IF newValue > w.lastKnownUpdate THEN requestSync(w) ELSE w
    ELSE handleAdminOnline(w)

\* a queued change; `n` numbers the add/update/delete calls (bookkeeping for
\* the properties below, not a field of the code's entry)
Change(type, data) ==
    [type |-> type, data |-> data, conflict |-> <<>>, timestamp |-> clock,
     n |-> issued + 1]

NoNotice == [k \in StorageKeys |-> 0]

\* the handler's effects become the next state; a BroadcastChannel delivers
\* to every other manager holding an open channel, never to the sender, and
\* a storage key left with another value raises a 'storage' event in every
\* other open tab
Commit(r, w, ownInbox, ownNotices) ==
    /\ hasStore' = w.hasStore
    /\ store' = w.store
    /\ lastUpdateKey' = w.lastUpdateKey
    /\ queueKey' = w.queueKey
    /\ adminOnlineKey' = w.adminOnlineKey
    /\ offlineQueue' = [offlineQueue EXCEPT ![r] = w.offlineQueue]
    /\ lastKnownUpdate' = [lastKnownUpdate EXCEPT ![r] = w.lastKnownUpdate]
    /\ syncStatus' = [syncStatus EXCEPT ![r] = w.syncStatus]
    /\ applyCount' = w.applyCount
    /\ consecutiveFailures' =
          [consecutiveFailures EXCEPT ![r] = w.consecutiveFailures]
    /\ unknownLogged' = [unknownLogged EXCEPT ![r] = w.unknownLogged]
    /\ reentered' = [reentered EXCEPT ![r] = w.reentered]
    /\ lastResult' = IF w.result = "none" THEN lastResult ELSE w.result
    /\ inbox' = [q \in Replicas |->
                    IF q = r THEN ownInbox
                    ELSE IF started[q] /\ broadcastChannel[q] = "open"
                    THEN inbox[q] \o w.out
                    ELSE inbox[q]]
    /\ \A q \in Replicas : Len(inbox'[q]) <= MaxInbox
    /\ notices' = [q \in Replicas |->
                      IF q = r THEN ownNotices
                      ELSE IF ~started[q] THEN notices[q]
                      ELSE [k \in StorageKeys |->
                              IF k = "lastUpdate" /\ w.lastUpdateKey # lastUpdateKey
                              THEN w.lastUpdateKey
                              ELSE IF k = "adminOnline"
                                      /\ w.adminOnlineKey # adminOnlineKey
                              THEN w.adminOnlineKey
                              ELSE notices[q][k]]]
    /\ Len(w.offlineQueue) <= MaxQueue

EngineFrame == UNCHANGED <<harnessVars, pageVars, postVars, syncVars>>

\* how `new BroadcastChannel(...)` goes for a page: the constructor is not
\* defined, it throws, it returns a working channel, or it returns a channel
\* whose postMessage throws
ChannelSetups == {"unsupported", "throws", "open", "closed"}

\* setupBroadcastChannel with the status set whether or not a channel was
\* constructed
setupBroadcastChannelAnyOutcome(w, setup) ==
    updateSyncStatus(
        [w EXCEPT !.broadcastChannel =
                     IF setup = "open" THEN "open"
                     ELSE IF setup = "closed" THEN "throwing" ELSE "null"],
        "optimal")

\* setupBroadcastChannel()
setupBroadcastChannel(w, setup) ==
    IF setup = "unsupported" \/ setup = "throws" THEN w
    ELSE updateSyncStatus(
            [w EXCEPT !.broadcastChannel =
                         IF setup = "open" THEN "open" ELSE "throwing"],
            "optimal")

\* checkAdminOnlineStatus(): a heartbeat of the last 10 seconds counts
AdminRecentWindow == 10000

checkAdminOnlineStatus(w) ==
    IF isAdminPanel(w.self) THEN w
    ELSE IF w.adminOnlineKey # 0 /\ clock - w.adminOnlineKey < AdminRecentWindow
    THEN handleAdminOnline(w)
    ELSE w

\* init() from loadInitialData() on: the stored marker and queue are loaded,
\* the queue is drained, the admin heartbeat is looked up, and the status
\* ends as 'ready'
finishInit(channel) ==
    LET loaded == [channel EXCEPT
                     !.lastKnownUpdate = IF hasStore THEN lastUpdateKey ELSE @,
                     !.offlineQueue = queueKey]
        drained == processOfflineQueue(loaded)
        checked == checkAdminOnlineStatus(drained)
    IN updateSyncStatus(checked, "ready")

\* new PropertySyncManager(): init()
Start(r, full, setup) ==
    /\ ~started[r]
    /\ started' = [started EXCEPT ![r] = TRUE]
    /\ LET channel == setupBroadcastChannel(
                          updateSyncStatus(World(r, full), "initializing"), setup)
       IN /\ Commit(r, finishInit(channel), <<>>, notices[r])
          /\ broadcastChannel' =
                [broadcastChannel EXCEPT ![r] = channel.broadcastChannel]
    /\ UNCHANGED <<envVars, pending, drainRead, issued>>
    /\ EngineFrame

\* init() as far as the return of setupBroadcastChannel(): the manager as
\* the 'syncStatusChanged' listeners of the page see it at that point.  No
\* message is handled before init() has returned.
SetupChannel(r, setup) ==
    /\ ~started[r] /\ syncStatus[r] = "initializing"
    /\ LET channel == setupBroadcastChannel(
                          updateSyncStatus(World(r, FALSE), "initializing"), setup)
       IN /\ Commit(r, channel, <<>>, notices[r])
          /\ broadcastChannel' =
                [broadcastChannel EXCEPT ![r] = channel.broadcastChannel]
    /\ UNCHANGED <<envVars, started, pending, drainRead, issued>>
    /\ EngineFrame

\* the rest of init()
FinishStart(r, full) ==
    /\ ~started[r]
    /\ started' = [started EXCEPT ![r] = TRUE]
    /\ Commit(r, finishInit(World(r, full)), <<>>, notices[r])
    /\ UNCHANGED <<envVars, broadcastChannel, pending, drainRead, issued>>
    /\ EngineFrame

\* what callers pass: a record or null/a non-object (NullProperty) to add,
\* an array of records or a plain record object to update, an id or
\* undefined (0) to delete
AddInputs(r) == {NewPropertyOf(r), NullProperty}

UpdateInputs ==
    { ArrayData(<<UpdatedProperty(i)>>) : i \in UpdateIds }
    \cup { ObjectData(UpdatedProperty(1)) }

DeleteInputs == UpdateIds \cup {0}

\* resolve(...) / reject(error) of the promise a mutation returns
Settle(w, result) == [w EXCEPT !.result = result]

\* this.offlineQueue.push(change); this.saveOfflineQueue();
\* return resolve({ success: false, queued: true })
QueueChange(w, change) ==
    Settle(saveOfflineQueue([w EXCEPT !.offlineQueue = Append(@, change)]),
           "queued")

\* saveData, broadcastChange, notifyDataChanged, resolve({ success: true });
\* a throw of saveData is caught and rejects the promise
SaveAndBroadcast(w, data) ==
    LET saved == saveData(w, data)
    IN IF saved.threw THEN Settle(w, "rejected")
       ELSE Settle(notifyDataChanged(broadcastChange(saved, data)), "success")

\* add(property)
add(w, property) ==
    IF property = NullProperty THEN Settle(w, "rejected")
    ELSE IF ~onLine THEN QueueChange(w, Change("add", ObjectData(property)))
    ELSE LET currentData == getCurrentData(w)
         IN SaveAndBroadcast(w,
                Append(currentData,
                       [property EXCEPT !.id = MaxIdOf(currentData) + 1]))

\* update(data)
update(w, data) ==
    IF ~data.array THEN Settle(w, "rejected")
    ELSE IF ~onLine THEN QueueChange(w, Change("update", data))
    ELSE SaveAndBroadcast(w,
             mergeData(getCurrentData(w), data.items, isAdminPanel(w.self), clock))

\* delete(propertyId): no validation of propertyId; online, an id that is
\* not stored throws 'Property not found'
delete(w, propertyId) ==
    IF ~onLine
    THEN QueueChange(w, Change("delete", ObjectData(IdOnly(propertyId))))
    ELSE LET currentData == getCurrentData(w)
             index == findIndex(currentData, propertyId)
         IN IF index = 0 THEN Settle(w, "rejected")
            ELSE SaveAndBroadcast(w, Splice(currentData, index))

\* a page calls add(property)
Add(r, property, full) ==
    /\ started[r] /\ issued < MaxMutations
    /\ issued' = issued + 1
    /\ Commit(r, add(World(r, full), property), inbox[r], notices[r])
    /\ UNCHANGED <<envVars, started, broadcastChannel, drainRead, pending>>
    /\ EngineFrame

\* a page calls update(data)
Update(r, data, full) ==
    /\ started[r] /\ issued < MaxMutations
    /\ issued' = issued + 1
    /\ Commit(r, update(World(r, full), data), inbox[r], notices[r])
    /\ UNCHANGED <<envVars, started, broadcastChannel, drainRead, pending>>
    /\ EngineFrame

\* a page calls delete(propertyId)
Delete(r, propertyId, full) ==
    /\ started[r] /\ issued < MaxMutations
    /\ issued' = issued + 1
    /\ Commit(r, delete(World(r, full), propertyId), inbox[r], notices[r])
    /\ UNCHANGED <<envVars, started, broadcastChannel, drainRead, pending>>
    /\ EngineFrame

\* connectivity is lost: every open manager gets an 'offline' event
GoOffline ==
    /\ onLine /\ onLine' = FALSE
    /\ \A r \in Replicas : Len(pending[r]) < MaxPending
    /\ pending' = [r \in Replicas |->
                      IF started[r] THEN Append(pending[r], "offline") ELSE pending[r]]
    /\ UNCHANGED <<clock, storageVars, started, broadcastChannel, drainRead, offlineQueue,
                   lastKnownUpdate, syncStatus, inbox, notices, issued,
                   lastResult, applyCount, consecutiveFailures, unknownLogged, reentered,
                   syncVars,
                   harnessVars, pageVars, postVars>>

\* connectivity is back: every open manager gets an 'online' event
GoOnline ==
    /\ ~onLine /\ onLine' = TRUE
    /\ \A r \in Replicas : Len(pending[r]) < MaxPending
    /\ pending' = [r \in Replicas |->
                      IF started[r] THEN Append(pending[r], "online") ELSE pending[r]]
    /\ UNCHANGED <<clock, storageVars, started, broadcastChannel, drainRead, offlineQueue,
                   lastKnownUpdate, syncStatus, inbox, notices, issued,
                   lastResult, applyCount, consecutiveFailures, unknownLogged, reentered,
                   syncVars,
                   harnessVars, pageVars, postVars>>

\* Tabs are separate processes and localStorage has no lock: between the
\* getItem of getCurrentData() and the setItem of saveData() in one tab,
\* another tab can write the key.  BeginOnline is the 'online' listener of
\* tab r up to the getCurrentData() of its first queued change; HandleOnline
\* is the listener as a whole, or the rest of it after BeginOnline (when
\* every setItem fails, the key keeps what the other tabs wrote).  A tab runs
\* one handler at a time, so no other handler of r runs in between.
NoRead == [taken |-> FALSE, hasStore |-> FALSE, store |-> <<>>]

BeginOnline(r) ==
    /\ pending[r] # <<>> /\ Head(pending[r]) = "online"
    /\ onLine /\ offlineQueue[r] # <<>> /\ ~drainRead[r].taken
    /\ drainRead' = [drainRead EXCEPT
                        ![r] = [taken |-> TRUE, hasStore |-> hasStore,
                                store |-> store]]
    /\ UNCHANGED <<envVars, storageVars, started, broadcastChannel, offlineQueue,
                   lastKnownUpdate, syncStatus, inbox, pending, notices, issued,
                   lastResult, applyCount, consecutiveFailures, unknownLogged,
                   reentered>>
    /\ EngineFrame

\* the 'online' listener of setupOfflineQueue
HandleOnline(r, full) ==
    /\ pending[r] # <<>> /\ Head(pending[r]) = "online"
    /\ pending' = [pending EXCEPT ![r] = Tail(@)]
    /\ IF drainRead[r].taken
       THEN LET read == [World(r, full) EXCEPT
                            !.hasStore = drainRead[r].hasStore,
                            !.store = drainRead[r].store]
                done == drainQueue(read)
            IN Commit(r, IF full
                         THEN [done EXCEPT !.hasStore = hasStore, !.store = store]
                         ELSE done,
                      inbox[r], notices[r])
       ELSE Commit(r, processOfflineQueue(World(r, full)), inbox[r], notices[r])
    /\ drainRead' = [drainRead EXCEPT ![r] = NoRead]
    /\ UNCHANGED <<envVars, started, broadcastChannel, issued>>
    /\ EngineFrame

\* the 'offline' listener of setupOfflineQueue
HandleOffline(r) ==
    /\ pending[r] # <<>> /\ Head(pending[r]) = "offline"
    /\ pending' = [pending EXCEPT ![r] = Tail(@)]
    /\ Commit(r, updateSyncStatus(World(r, FALSE), "offline"), inbox[r], notices[r])
    /\ UNCHANGED <<envVars, started, broadcastChannel, drainRead, issued>>
    /\ EngineFrame

\* broadcastChannel.onmessage: the oldest message posted to the tab
Receive(r, full) ==
    /\ started[r] /\ inbox[r] # <<>>
    /\ Commit(r, handleBroadcastMessage(World(r, full), Head(inbox[r])), Tail(inbox[r]), notices[r])
    /\ UNCHANGED <<envVars, started, broadcastChannel, drainRead, pending, issued>>
    /\ EngineFrame

\* the polling timer of tab r fires
PeriodicSyncCheck(r, full) ==
    /\ started[r]
    /\ Commit(r, periodicSyncCheck(World(r, full)), inbox[r], notices[r])
    /\ UNCHANGED <<envVars, started, broadcastChannel, drainRead, pending, issued>>
    /\ EngineFrame

\* the 'storage' listener of tab r runs for the key k
StorageEvent(r, k, full) ==
    /\ started[r] /\ notices[r][k] # 0
    /\ Commit(r, handleStorageEvent(World(r, full), k, notices[r][k]), inbox[r],
              [notices[r] EXCEPT ![k] = 0])
    /\ UNCHANGED <<envVars, started, broadcastChannel, drainRead, pending, issued>>
    /\ EngineFrame

\* how a call made by the page ended
Returned(w) == Settle([w EXCEPT !.threw = FALSE],
                      IF w.threw THEN "threw" ELSE "returned")

\* a caller sends a message of its own through sendBroadcast(message)
SendInputs == {Message("ping", <<>>, 0, "page")}

SendBroadcast(r, message) ==
    /\ started[r]
    /\ Commit(r, Returned(sendBroadcast(World(r, FALSE), message)), inbox[r],
              notices[r])
    /\ UNCHANGED <<envVars, started, broadcastChannel, drainRead, pending, issued>>
    /\ EngineFrame

\* a caller announces the stored collection through broadcastChange(data)
BroadcastChange(r, full) ==
    /\ started[r]
    /\ LET w == World(r, full)
       IN Commit(r, Returned(broadcastChange(w, getCurrentData(w))), inbox[r],
                 notices[r])
    /\ UNCHANGED <<envVars, started, broadcastChannel, drainRead, pending, issued>>
    /\ EngineFrame

\* window.syncManager.broadcast(msg) of src/js/sync.js: its own channel `bc`
\* of the same name (null, working, or throwing), then the 'ring0_sync_msg'
\* key, both inside try/catch; the payload reaches the managers as a message
\* of a type they do not know
broadcast(w, bc) ==
    IF bc = "open"
    THEN [w EXCEPT !.out = Append(@, Message("offline-queue-updated", <<>>, clock, "page"))]
    ELSE w

\* the handlers a page can register
Handlers == {"h1", "h2"}

\* what a broadcast of page r puts on its way to page q: a BroadcastChannel
\* delivers to every other channel object of the name, never to the posting
\* one, and a 'storage' event is raised in every other open page, never in
\* the writing one
SyncPayloads(r, q, bc, token) ==
    IF q = r \/ ~started[q] THEN <<>>
    ELSE (IF bc = "open" THEN <<token>> ELSE <<>>) \o <<token>>

\* page r calls syncManager.broadcast(msg); the payload also arrives at the
\* PropertySyncManager channel of the page itself, a channel object of its own
SyncBroadcast(r, bc) ==
    /\ started[r]
    /\ broadcasts < MaxBroadcasts
    /\ broadcasts' = broadcasts + 1
    /\ syncEvents' = [q \in Replicas |->
                         syncEvents[q] \o SyncPayloads(r, q, bc, broadcasts + 1)]
    /\ LET sent == Returned(broadcast(World(r, FALSE), bc))
       IN /\ Commit(r, sent,
                    IF broadcastChannel[r] = "open" THEN inbox[r] \o sent.out
                    ELSE inbox[r],
                    notices[r])
          /\ Len(inbox'[r]) <= MaxInbox
    /\ UNCHANGED <<envVars, started, broadcastChannel, drainRead, pending, issued>>
    /\ UNCHANGED <<harnessVars, pageVars, postVars, listeners, heard>>

\* the frame of the steps of src/js/sync.js that touch no manager
SyncFrame ==
    UNCHANGED <<harnessVars, pageVars, envVars, postVars, storageVars, replicaVars>>

\* syncManager.onMessage(fn): listeners.add(fn)
OnMessage(r, fn) ==
    /\ started[r]
    /\ \A e \in listeners[r] : e.fn # fn
    /\ listeners' = [listeners EXCEPT
                        ![r] = @ \cup {[fn |-> fn, since |-> broadcasts]}]
    /\ UNCHANGED <<syncEvents, heard, broadcasts>>
    /\ SyncFrame

\* the disposer onMessage returned: listeners.delete(fn)
Dispose(r, fn) ==
    /\ \E e \in listeners[r] : e.fn = fn
    /\ listeners' = [listeners EXCEPT ![r] = {e \in @ : e.fn # fn}]
    /\ UNCHANGED <<syncEvents, heard, broadcasts>>
    /\ SyncFrame

\* bc.onmessage or the 'storage' listener of page r runs:
\* listeners.forEach(fn => fn(data))
SyncDeliver(r) ==
    /\ syncEvents[r] # <<>>
    /\ syncEvents' = [syncEvents EXCEPT ![r] = Tail(@)]
    /\ heard' = [heard EXCEPT
                    ![r] = @ \cup {<<e.fn, Head(syncEvents[r])>> : e \in listeners[r]}]
    /\ UNCHANGED <<listeners, broadcasts>>
    /\ SyncFrame

\* a page outside the managers of the model posts `message` on the channel
\* 'ring0-property-sync': it arrives at every manager holding an open channel
Post(message) ==
    /\ inbox' = [q \in Replicas |->
                    IF started[q] /\ broadcastChannel[q] = "open"
                    THEN Append(inbox[q], message) ELSE inbox[q]]
    /\ inbox' # inbox
    /\ \A q \in Replicas : Len(inbox'[q]) <= MaxInbox
    /\ UNCHANGED <<envVars, storageVars, started, broadcastChannel, offlineQueue,
                   lastKnownUpdate, syncStatus, pending, drainRead, notices,
                   issued, lastResult, applyCount, consecutiveFailures,
                   unknownLogged, reentered>>
    /\ EngineFrame

\* what such a page posts: the value null, the payload of a
\* syncManager.broadcast (a type the managers do not know), an update or a
\* response whose payload is no collection, and resolutions of a conflict
\* about record 1
PostInputs ==
    {NullMessage,
     Message("offline-queue-updated", <<>>, clock, "page"),
     Message("data_update", NotACollection, clock, "user"),
     Message("sync_response", NotACollection, clock, "admin")}
    \cup {ResolutionMessage(1, UpdatedProperty(k)) : k \in UpdateIds}

\* no handler registered, no broadcast made
SyncIdle ==
    /\ listeners = [r \in Replicas |-> {}]
    /\ syncEvents = [r \in Replicas |-> <<>>]
    /\ heard = [r \in Replicas |-> {}]
    /\ broadcasts = 0

\* no manager constructed, nothing in localStorage
EngineIdle ==
    /\ hasStore = FALSE /\ store = <<>> /\ lastUpdateKey = 0 /\ queueKey = <<>>
    /\ adminOnlineKey = 0
    /\ started = [r \in Replicas |-> FALSE]
    /\ broadcastChannel = [r \in Replicas |-> "null"]
    /\ offlineQueue = [r \in Replicas |-> <<>>]
    /\ lastKnownUpdate = [r \in Replicas |-> 0]
    /\ syncStatus = [r \in Replicas |-> "initializing"]
    /\ inbox = [r \in Replicas |-> <<>>]
    /\ pending = [r \in Replicas |-> <<>>]
    /\ drainRead = [r \in Replicas |-> NoRead]
    /\ notices = [r \in Replicas |-> NoNotice]
    /\ issued = 0
    /\ lastResult = "none"
    /\ applyCount = [n \in 1..MaxMutations |-> 0]
    /\ consecutiveFailures = [r \in Replicas |-> 0]
    /\ unknownLogged = [r \in Replicas |-> FALSE]
    /\ reentered = [r \in Replicas |-> FALSE]
    /\ SyncIdle

\* localStorage is empty, or holds one record saved by an earlier session
InitEngine ==
    /\ hasStore \in BOOLEAN
    /\ store = IF hasStore THEN <<[NewProperty EXCEPT !.id = 1]>> ELSE <<>>
    /\ lastUpdateKey = IF hasStore THEN 1 ELSE 0
    /\ queueKey = <<>>
    /\ adminOnlineKey = 0
    /\ started = [r \in Replicas |-> FALSE]
    /\ broadcastChannel = [r \in Replicas |-> "null"]
    /\ offlineQueue = [r \in Replicas |-> <<>>]
    /\ lastKnownUpdate = [r \in Replicas |-> 0]
    /\ syncStatus = [r \in Replicas |-> "initializing"]
    /\ inbox = [r \in Replicas |-> <<>>]
    /\ pending = [r \in Replicas |-> <<>>]
    /\ drainRead = [r \in Replicas |-> NoRead]
    /\ notices = [r \in Replicas |-> NoNotice]
    /\ issued = 0
    /\ lastResult = "none"
    /\ applyCount = [n \in 1..MaxMutations |-> 0]
    /\ consecutiveFailures = [r \in Replicas |-> 0]
    /\ unknownLogged = [r \in Replicas |-> FALSE]
    /\ reentered = [r \in Replicas |-> FALSE]
    /\ SyncIdle

\* one manager alone in the browser
InitTab == HarnessIdle /\ EnvIdle /\ PageIdle /\ PostsIdle /\ InitEngine

NextTab ==
    \/ \E r \in Replicas : \E full \in BOOLEAN :
            (\A q \in Replicas : ~started[q]) /\ Start(r, full, "open")
    \/ \E r \in Replicas : \E property \in AddInputs(r) : \E full \in BOOLEAN :
            Add(r, property, full)
    \/ \E r \in Replicas : \E data \in UpdateInputs : \E full \in BOOLEAN :
            Update(r, data, full)
    \/ \E r \in Replicas : \E i \in DeleteInputs : \E full \in BOOLEAN :
            Delete(r, i, full)
    \/ GoOffline
    \/ GoOnline
    \/ \E r \in Replicas : \E full \in BOOLEAN : HandleOnline(r, full)
    \/ \E r \in Replicas : HandleOffline(r)
    \/ Tick

SpecTab == InitTab /\ [][NextTab]_vars

\* the admin panel and a user page open in the same browser
Init == HarnessIdle /\ EnvIdle /\ PageIdle /\ PostsIdle /\ InitEngine

Next ==
    \/ \E r \in Replicas : \E full \in BOOLEAN : Start(r, full, "open")
    \/ \E r \in Replicas : \E property \in AddInputs(r) : \E full \in BOOLEAN :
            issued < MaxShared /\ Add(r, property, full)
    \/ \E r \in Replicas : \E data \in UpdateInputs : \E full \in BOOLEAN :
            issued < MaxShared /\ Update(r, data, full)
    \/ \E r \in Replicas : \E i \in DeleteInputs : \E full \in BOOLEAN :
            issued < MaxShared /\ Delete(r, i, full)
    \/ GoOffline
    \/ GoOnline
    \/ \E r \in Replicas : \E full \in BOOLEAN : HandleOnline(r, full)
    \/ \E r \in Replicas : HandleOffline(r)
    \/ \E r \in Replicas : \E full \in BOOLEAN : Receive(r, full)
    \/ Tick

Spec == Init /\ [][Next]_vars

\* no message is waiting in a tab
Quiet == \A r \in Replicas : inbox[r] = <<>>

\* both pages open with any kind of channel, online: mutations and sends,
\* each made once the messages of the previous one are handled
InitSend == HarnessIdle /\ EnvIdle /\ PageIdle /\ PostsIdle /\ InitEngine

NextSend ==
    \/ \E r \in Replicas : \E setup \in ChannelSetups : Start(r, FALSE, setup)
    \/ \E r \in Replicas : \E full \in BOOLEAN :
            Quiet /\ issued < MaxShared /\ Add(r, NewPropertyOf(r), full)
    \/ \E r \in Replicas : \E i \in UpdateIds : \E full \in BOOLEAN :
            Quiet /\ issued < MaxShared
                  /\ Update(r, ArrayData(<<UpdatedProperty(i)>>), full)
    \/ \E r \in Replicas : \E i \in UpdateIds : \E full \in BOOLEAN :
            Quiet /\ issued < MaxShared /\ Delete(r, i, full)
    \/ \E r \in Replicas : \E message \in SendInputs :
            Quiet /\ SendBroadcast(r, message)
    \/ \E r \in Replicas : \E full \in BOOLEAN : Quiet /\ BroadcastChange(r, full)
    \/ \E r \in Replicas : \E bc \in {"null", "open", "throwing"} :
            Quiet /\ broadcasts < MaxShared /\ SyncBroadcast(r, bc)
    \/ \E r \in Replicas : \E full \in BOOLEAN : Receive(r, full)
    \/ Tick

SpecSend == InitSend /\ [][NextSend]_vars

\* both pages open on working channels, online: one add, and messages posted
\* on the channel from outside, each once the previous ones are handled
InitInbound == HarnessIdle /\ EnvIdle /\ PageIdle /\ PostsIdle /\ InitEngine

NextInbound ==
    \/ \E r \in Replicas : Start(r, FALSE, "open")
    \/ \E r \in Replicas :
            Quiet /\ issued < MaxShared /\ Add(r, NewPropertyOf(r), FALSE)
    \/ \E message \in PostInputs :
            /\ Quiet
            /\ \A r \in Replicas : consecutiveFailures[r] < MaxFailures
            /\ Post(message)
    \/ \E r \in Replicas : \E full \in BOOLEAN : Receive(r, full)
    \/ Tick

SpecInbound == InitInbound /\ [][NextInbound]_vars

\* both pages open with sync.js loaded: handlers are registered and disposed,
\* pages broadcast, and the payloads are delivered
InitSync == HarnessIdle /\ EnvIdle /\ PageIdle /\ PostsIdle /\ InitEngine

NextSync ==
    \/ \E r \in Replicas : Start(r, FALSE, "open")
    \/ \E r \in Replicas : \E fn \in Handlers : OnMessage(r, fn)
    \/ \E r \in Replicas : \E fn \in Handlers : Dispose(r, fn)
    \/ \E r \in Replicas : \E bc \in {"null", "open", "throwing"} :
            SyncBroadcast(r, bc)
    \/ \E r \in Replicas : SyncDeliver(r)
    \/ \E r \in Replicas : Receive(r, FALSE)

SpecSync == InitSync /\ [][NextSync]_vars

\* both pages open, neither with a working channel (none, or one whose
\* postMessage throws): mutations, polling timers and storage events
InitFallback == HarnessIdle /\ EnvIdle /\ PageIdle /\ PostsIdle /\ InitEngine

NextFallback ==
    \/ \E r \in Replicas : \E setup \in ChannelSetups \ {"open"} :
            Start(r, FALSE, setup)
    \/ \E r \in Replicas : \E full \in BOOLEAN :
            issued < MaxPair /\ Add(r, NewPropertyOf(r), full)
    \/ \E r \in Replicas : \E i \in UpdateIds : \E full \in BOOLEAN :
            issued < MaxPair /\ Update(r, ArrayData(<<UpdatedProperty(i)>>), full)
    \/ \E r \in Replicas : \E i \in UpdateIds : \E full \in BOOLEAN :
            issued < MaxPair /\ Delete(r, i, full)
    \/ \E r \in Replicas : \E full \in BOOLEAN : PeriodicSyncCheck(r, full)
    \/ \E r \in Replicas : \E k \in StorageKeys : \E full \in BOOLEAN :
            StorageEvent(r, k, full)
    \/ Tick

SpecFallback == InitFallback /\ [][NextFallback]_vars

\* both pages open on working channels and storage with room, connectivity
\* coming and going: mutations, connectivity events, messages, storage events
\* and polling timers; a page call or a timer waits for the messages in
\* flight to be handled
InitConverge == HarnessIdle /\ EnvIdle /\ PageIdle /\ PostsIdle /\ InitEngine

NextConverge ==
    \/ \E r \in Replicas : Start(r, FALSE, "open")
    \/ \E r \in Replicas :
            Quiet /\ issued < MaxShared /\ Add(r, NewPropertyOf(r), FALSE)
    \/ \E r \in Replicas : \E i \in UpdateIds :
            Quiet /\ issued < MaxShared
                  /\ Update(r, ArrayData(<<UpdatedProperty(i)>>), FALSE)
    \/ \E r \in Replicas : \E i \in UpdateIds :
            Quiet /\ issued < MaxShared /\ Delete(r, i, FALSE)
    \/ GoOffline
    \/ GoOnline
    \/ \E r \in Replicas : HandleOnline(r, FALSE)
    \/ \E r \in Replicas : HandleOffline(r)
    \/ \E r \in Replicas : Receive(r, FALSE)
    \/ \E r \in Replicas : \E k \in StorageKeys : StorageEvent(r, k, FALSE)
    \/ \E r \in Replicas : Quiet /\ PeriodicSyncCheck(r, FALSE)
    \/ Tick

SpecConverge == InitConverge /\ [][NextConverge]_vars

\* both pages open on working channels, online, storage with room: two
\* mutations and the messages they send
InitOrder == HarnessIdle /\ EnvIdle /\ PageIdle /\ PostsIdle /\ InitEngine

NextOrder ==
    \/ \E r \in Replicas : Start(r, FALSE, "open")
    \/ \E r \in Replicas : issued < MaxPair /\ Add(r, NewPropertyOf(r), FALSE)
    \/ \E r \in Replicas : \E i \in UpdateIds :
            issued < MaxPair /\ Update(r, ArrayData(<<UpdatedProperty(i)>>), FALSE)
    \/ \E r \in Replicas : \E i \in UpdateIds :
            issued < MaxPair /\ Delete(r, i, FALSE)
    \/ \E r \in Replicas : Receive(r, FALSE)
    \/ Tick

SpecOrder == InitOrder /\ [][NextOrder]_vars

\* both pages open on working channels, storage with room, each user adding
\* records while offline; the two 'online' listeners may interleave their
\* reads and writes
InitRace == HarnessIdle /\ EnvIdle /\ PageIdle /\ PostsIdle /\ InitEngine

NextRace ==
    \/ \E r \in Replicas : Start(r, FALSE, "open")
    \/ \E r \in Replicas :
            issued < MaxPair /\ ~onLine /\ Add(r, NewPropertyOf(r), FALSE)
    \/ GoOffline
    \/ GoOnline
    \/ \E r \in Replicas : BeginOnline(r)
    \/ \E r \in Replicas : HandleOnline(r, FALSE)
    \/ \E r \in Replicas : HandleOffline(r)
    \/ \E r \in Replicas : ~drainRead[r].taken /\ Receive(r, FALSE)
    \/ Tick

SpecRace == InitRace /\ [][NextRace]_vars

\* both pages open, storage with room, each user only adding records
InitPair == HarnessIdle /\ EnvIdle /\ PageIdle /\ PostsIdle /\ InitEngine

NextPair ==
    \/ \E r \in Replicas : Start(r, FALSE, "open")
    \/ \E r \in Replicas : issued < MaxPair /\ Add(r, NewPropertyOf(r), FALSE)
    \/ GoOffline
    \/ GoOnline
    \/ \E r \in Replicas : HandleOnline(r, FALSE)
    \/ \E r \in Replicas : HandleOffline(r)
    \/ \E r \in Replicas : Receive(r, FALSE)
    \/ Tick

SpecPair == InitPair /\ [][NextPair]_vars

\* both pages open, with a working channel or none, online, storage with
\* room: one add, announcements of the stored collection made while earlier
\* messages are still on their way, and the messages they send
InitMarkers == HarnessIdle /\ EnvIdle /\ PageIdle /\ PostsIdle /\ InitEngine

NextMarkers ==
    \/ \E r \in Replicas : \E setup \in {"open", "unsupported"} :
            Start(r, FALSE, setup)
    \/ \E r \in Replicas : issued < MaxShared /\ Add(r, NewPropertyOf(r), FALSE)
    \/ \E r \in Replicas : BroadcastChange(r, FALSE)
    \/ \E r \in Replicas : Receive(r, FALSE)
    \/ Tick

SpecMarkers == InitMarkers /\ [][NextMarkers]_vars

\* both pages opening with any kind of channel, online, storage with room:
\* start-up in its two parts, null and unknown messages posted on the
\* channel from outside, and the polling timers
InitPolling == HarnessIdle /\ EnvIdle /\ PageIdle /\ PostsIdle /\ InitEngine

NextPolling ==
    \/ \E r \in Replicas : \E setup \in ChannelSetups : SetupChannel(r, setup)
    \/ \E r \in Replicas : FinishStart(r, FALSE)
    \/ \E message \in {NullMessage,
                        Message("offline-queue-updated", <<>>, clock, "page")} :
            /\ Quiet
            /\ \A r \in Replicas : consecutiveFailures[r] < MaxFailures
            /\ Post(message)
    \/ \E r \in Replicas : Receive(r, FALSE)
    \/ \E r \in Replicas : PeriodicSyncCheck(r, FALSE)
    \/ Tick

SpecPolling == InitPolling /\ [][NextPolling]_vars

\* A millisecond passing once the clock has reached MaxClock: the clock
\* keeps its value and every timestamp held anywhere becomes one
\* millisecond older instead.  Timestamps are only ever compared with each
\* other and with the clock; those more than MaxClock - 1 ms old are kept
\* as 1, the oldest value, and 0 stays "absent".
Age(t) == IF t > 1 THEN t - 1 ELSE t

AgeData(data) == [i \in 1..Len(data) |-> [data[i] EXCEPT !.lastUpdated = Age(@)]]

AgeMessage(m) == [m EXCEPT !.timestamp = Age(@), !.data = AgeData(@)]

Elapse ==
    /\ clock = MaxClock
    /\ \A r \in Replicas :
          offlineQueue[r] = <<>> /\ drainRead[r] = NoRead
    /\ queueKey = <<>>
    /\ store' = AgeData(store)
    /\ lastUpdateKey' = Age(lastUpdateKey)
    /\ adminOnlineKey' = Age(adminOnlineKey)
    /\ lastKnownUpdate' = [r \in Replicas |-> Age(lastKnownUpdate[r])]
    /\ inbox' = [r \in Replicas |->
                    [i \in 1..Len(inbox[r]) |-> AgeMessage(inbox[r][i])]]
    /\ notices' = [r \in Replicas |->
                      [k \in StorageKeys |-> Age(notices[r][k])]]
    /\ UNCHANGED <<envVars, hasStore, queueKey, started, broadcastChannel,
                   offlineQueue, syncStatus, pending, drainRead, issued,
                   lastResult, applyCount, consecutiveFailures, unknownLogged,
                   reentered>>
    /\ EngineFrame

\* the admin page and a user page open on working channels, online, storage
\* with room: one mutation and the messages it leads to, with time passing
\* without bound
InitChain == HarnessIdle /\ EnvIdle /\ PageIdle /\ PostsIdle /\ InitEngine

NextChain ==
    \/ \E r \in Replicas : Start(r, FALSE, "open")
    \/ \E r \in Replicas :
            Quiet /\ issued < MaxShared /\ Add(r, NewPropertyOf(r), FALSE)
    \/ \E r \in Replicas : \E i \in UpdateIds :
            Quiet /\ issued < MaxShared
                  /\ Update(r, ArrayData(<<UpdatedProperty(i)>>), FALSE)
    \/ \E r \in Replicas : Receive(r, FALSE)
    \/ Tick
    \/ Elapse

SpecChain == InitChain /\ [][NextChain]_vars

\* the head message of page r's inbox is handled and nothing else changes:
\* what Receive does with a message the handler ignores
Ignore(r) ==
    /\ inbox' = [inbox EXCEPT ![r] = Tail(@)]
    /\ UNCHANGED <<envVars, storageVars, started, broadcastChannel, offlineQueue,
                   lastKnownUpdate, syncStatus, pending, drainRead, notices,
                   issued, lastResult, applyCount, consecutiveFailures,
                   unknownLogged, reentered>>
    /\ EngineFrame

\* page r handles the head message of its inbox
Handles(r) ==
    /\ started[r] /\ inbox[r] # <<>>
    /\ Ignore(r) \/ Receive(r, FALSE)

\* the channel is reliable and each page's event loop keeps running: a
\* page that has a message in its inbox handles one
SpecChainFair ==
    SpecChain /\ \A r \in Replicas : WF_vars(Handles(r))

\* calls of the upload helper, one after the other
InitUpload == HarnessIdle /\ EnvIdle /\ PageIdle /\ PostsIdle /\ EngineIdle

NextUpload ==
    \/ \E variant \in UploadVariants : \E cfg \in Deployments :
            UploadCall(variant, cfg)
    \/ \E outcome \in UploadOutcomes : \E jitter \in {0, JitterRange - 1} :
            UploadOnce(outcome, jitter)
    \/ UploadResume
    \/ \E ok \in BOOLEAN : UploadFallback(ok)
    \/ PostsGoOffline
    \/ PostsGoOnline

SpecUpload == InitUpload /\ [][NextUpload]_vars

\* a page using window.realtime
InitRealtime == HarnessIdle /\ EnvIdle /\ PageIdle /\ PostsIdle /\ EngineIdle

NextRealtime ==
    \/ \E client \in ClientKinds : SubscribePosts(client)
    \/ SubscribeResume
    \/ \E c \in 1..MaxChannels : ChannelEvent(c)
    \/ \E c \in 1..MaxChannels :
            \E status \in {"SUBSCRIBED", "CLOSED", "CHANNEL_ERROR"} :
                StatusCallback(c, status)
    \/ \E t \in 1..MaxTimers : PollTick(t)
    \/ Unsubscribe
    \/ StopPolling

SpecRealtime == InitRealtime /\ [][NextRealtime]_vars

InitPosts == HarnessIdle /\ EnvIdle /\ PageIdle /\ PostsIdle /\ EngineIdle

NextPosts ==
    \/ PostsGoOffline
    \/ PostsGoOnline
    \/ Tick
    \/ \E type \in OpTypes : \E full \in BOOLEAN : QueueAdd(type, full)
    \/ \E p \in Runs : ProcessQueueStart(p)
    \/ \E p \in Runs : \E outcome \in {"ok", "error", "throw"} :
            ProcessQueueResume(p, outcome)

SpecPosts == InitPosts /\ [][NextPosts]_vars

\* ------------------------------------------------------ harness specifications
InitSpecResolve == InitResolve /\ EnvIdle /\ PageIdle /\ PostsIdle /\ EngineIdle

SpecResolve == InitSpecResolve /\ [][ResolveCall]_vars

NextMerge == MergeSelfCall \/ MergePairCall \/ MergeTwoCall

InitSpecMerge == InitMerge /\ EnvIdle /\ PageIdle /\ PostsIdle /\ EngineIdle

SpecMerge == InitSpecMerge /\ [][NextMerge]_vars

\* ------------------------------------------------- claims: ConflictResolver
RangeOf(data) == { data[i] : i \in 1..Len(data) }

\* C1 (as stated): merge idempotence. mergeData(S, S) returns S record for
\* record, lastUpdated and updatedBy of every record included.
MergeIdempotent ==
    hStage = "self" => hMergedA = hLocal

\* C2 (as stated): authority override. When one version was written by the
\* admin and the other by a user, resolveConflict returns the admin's
\* version, in whichever argument position it is and whatever the timestamps.
AuthorityOverride ==
    (hStage = "resolved" /\ {hCurrent.updatedBy, hNew.updatedBy} = {"admin", "user"})
        => hResolved = (IF hCurrent.updatedBy = "admin" THEN hCurrent ELSE hNew)

FieldUnionNoRegression ==
    (/\ hStage = "resolved"
     /\ hCurrent.lastUpdated = hNew.lastUpdated
     /\ hCurrent.lastUpdated # 0)
        => /\ (hCurrent.description # "" \/ hNew.description # "") => hResolved.description # ""
           /\ (hCurrent.other # "" \/ hNew.other # "") => hResolved.other # ""
           /\ (hCurrent.status # "" \/ hNew.status # "") => hResolved.status # ""

\* C5 (as stated): claim dominance. If either version has status 'claimed',
\* the resolved record has status 'claimed', whichever rule decides the rest.
ClaimDominance ==
    (hStage = "resolved" /\ "claimed" \in {hCurrent.status, hNew.status})
        => hResolved.status = "claimed"

\* C6: addition commutativity. When the incoming collection shares no id with
\* S, merging it into S equals merging S into it (same records, same order);
\* and merging two such collections, disjoint from each other, into S gives
\* the same collection in either order.
AdditionCommutes ==
    /\ (hStage = "pair" /\ Disjoint(hLocal, hIncoming)) => hMergedA = hMergedB
    /\ (/\ hStage = "two"
        /\ Disjoint(hLocal, hIncoming) /\ Disjoint(hLocal, hOther)
        /\ Disjoint(hIncoming, hOther)) => hMergedA = hMergedB

\* C6 witness: three non-empty, pairwise disjoint collections were merged in
\* both orders, the incoming ids lying below the local ones.
AdditionCommutesWitness ==
    /\ hStage = "two"
    /\ hLocal # <<>> /\ hIncoming # <<>> /\ hOther # <<>>
    /\ hOther[1].id < hIncoming[1].id /\ hIncoming[1].id < hLocal[1].id
    /\ Len(hMergedA) = Len(hLocal) + Len(hIncoming) + Len(hOther)
    /\ hMergedA = hMergedB

NsOf(q) == { q[i].n : i \in 1..Len(q) }

ReplayedNs(q) ==
    { q[i].n : i \in { j \in 1..Len(q) : q[j].type \in {"insert", "delete"} } }

\* C9 (as stated): an entry leaves the persisted offline queue only after its
\* apply step succeeded. For the post queue: whenever an insert or delete
\* entry that is in localStorage before a step is no longer there after it,
\* the remote collaborator has applied that entry.
RemovedOnlyAfterSuccess ==
    [][ \A n \in ReplayedNs(pqStored) :
            n \notin NsOf(pqStored') => n \in RangeOf(remoteLog') ]_vars

\* the queue holds add(A), update(A), delete(B): A gets the next free id, the
\* update carries A's id, B is a stored record
IsAddUpdateDelete(q, data) ==
    /\ Len(q) = 3
    /\ q[1].type = "add"
    /\ q[2].type = "update" /\ q[2].data.items[1].id = MaxIdOf(data) + 1
    /\ q[3].type = "delete" /\ q[3].data.items[1].id \in IdsOf(data)

\* C8 (as stated): offline durability. When the 'online' listener of a
\* manager whose queue holds add(A), update(A), delete(B) drains the queue
\* and leaves it empty, the persisted collection is the one before the drain
\* with A added carrying the values of the update and with B removed, and the
\* persisted queue is empty.
OfflineDurability ==
    [][ \A r \in Replicas :
          ( /\ pending[r] # <<>> /\ Head(pending[r]) = "online"
            /\ pending'[r] = Tail(pending[r])
            /\ IsAddUpdateDelete(offlineQueue[r], store)
            /\ offlineQueue'[r] = <<>> )
          => LET a == MaxIdOf(store) + 1
                 u == offlineQueue[r][2].data.items[1]
                 b == offlineQueue[r][3].data.items[1].id
             IN /\ IdsOf(store') = (IdsOf(store) \cup {a}) \ {b}
                /\ \E i \in 1..Len(store') :
                      /\ store'[i].id = a
                      /\ store'[i].status = u.status
                      /\ store'[i].description = u.description
                      /\ store'[i].other = u.other
                /\ queueKey' = <<>> ]_vars

\* C10 (as stated): exactly-once replay. No mutation queued while offline is
\* applied by drains more than once, whichever managers drain and however
\* their drains interleave.
AppliedAtMostOnce ==
    \A n \in 1..MaxMutations : applyCount[n] <= 1

\* C11 (as stated): a mutation called while connectivity is down resolves
\* with the queued result, appends exactly one entry (its own) to the end of
\* the persisted offline queue, leaves the persisted collection and the
\* last-update key unchanged and broadcasts nothing.
OfflineMutationQueues ==
    [][ (issued' = issued + 1 /\ ~onLine /\ lastResult' = "queued")
        => /\ Len(queueKey') = Len(queueKey) + 1
           /\ SubSeq(queueKey', 1, Len(queueKey)) = queueKey
           /\ queueKey'[Len(queueKey')].n = issued'
           /\ store' = store /\ hasStore' = hasStore
           /\ lastUpdateKey' = lastUpdateKey
           /\ inbox' = inbox ]_vars

\* the entries of every offline queue, in memory or persisted
QueuedChanges ==
    RangeOf(queueKey) \cup UNION { RangeOf(offlineQueue[r]) : r \in Replicas }

\* C12 (as stated): malformed input is never placed in the offline queue. No
\* queued add holds a null record, no queued update holds anything but an
\* array, and no queued delete lacks its id.
NoMalformedQueued ==
    \A e \in QueuedChanges :
        /\ e.type = "add" => e.data.items[1] # NullProperty
        /\ e.type = "update" => e.data.array
        /\ e.type = "delete" => DataId(e.data) # 0

\* C13 (as stated): a mutation called while online that resolves with success
\* has been applied. After add the collection holds the record under its new
\* id, after update the stored record of every submitted id carries the
\* submitted values, after delete the id is not stored, and every other open
\* manager was sent a data_update carrying the resulting collection.
OnlineSuccessApplied ==
    [][ \A r \in Replicas : \A full \in BOOLEAN :
          /\ \A property \in AddInputs(r) :
                (Add(r, property, full) /\ onLine /\ lastResult' = "success")
                => \E i \in 1..Len(store') :
                      store'[i] = [property EXCEPT !.id = MaxIdOf(store) + 1]
          /\ \A data \in UpdateInputs :
                (Update(r, data, full) /\ onLine /\ lastResult' = "success")
                => \A k \in 1..Len(data.items) :
                      \E i \in 1..Len(store') :
                          /\ store'[i].id = data.items[k].id
                          /\ store'[i].status = data.items[k].status
                          /\ store'[i].description = data.items[k].description
                          /\ store'[i].other = data.items[k].other
          /\ \A i \in DeleteInputs :
                (Delete(r, i, full) /\ onLine /\ lastResult' = "success")
                => i \notin IdsOf(store')
          /\ (issued' = issued + 1 /\ onLine /\ lastResult' = "success")
             => \A q \in Replicas \ {r} :
                    (started[q] /\ started[r] /\ inbox'[q] # inbox[q])
                    => \E j \in 1..Len(inbox'[q]) :
                          /\ inbox'[q][j].type = "data_update"
                          /\ inbox'[q][j].data = store' ]_vars

\* C14 (as stated): a failed local store write during a mutation is never
\* reported as success or queued. A call that resolves queued has its entry
\* in the persisted queue, and a call that resolves with success has written
\* the collection and the last-update key.
WriteFailureReported ==
    [][ issued' = issued + 1
        => /\ lastResult' = "queued" => issued' \in NsOf(queueKey')
           /\ lastResult' = "success" => (hasStore' /\ lastUpdateKey' = clock) ]_vars

\* C15: sending never throws to the caller.  Whatever the channel of the
\* manager is (none, because BroadcastChannel is missing or its constructor
\* threw; working; throwing on postMessage), a call of sendBroadcast,
\* broadcastChange or syncManager.broadcast returns normally, and an online
\* add, update or delete whose save succeeds resolves with success.
SendNeverThrows ==
    [][ /\ lastResult' # "threw"
        /\ \A r \in Replicas :
            /\ Add(r, NewPropertyOf(r), FALSE) => lastResult' = "success"
            /\ \A i \in UpdateIds :
                /\ Update(r, ArrayData(<<UpdatedProperty(i)>>), FALSE)
                      => lastResult' = "success"
                /\ (Delete(r, i, FALSE) /\ i \in IdsOf(getCurrentData(World(r, FALSE))))
                      => lastResult' = "success" ]_vars

\* C15 witness: both managers hold a channel whose postMessage throws and
\* the latest mutation resolved with success
SendNeverThrowsWitness ==
    /\ \A r \in Replicas : started[r] /\ broadcastChannel[r] = "throwing"
    /\ issued = 1 /\ lastResult = "success"

\* C17 (as stated): a transport failure is surfaced as degraded status.  A
\* manager whose channel constructor threw ends its construction with status
\* 'degraded', and so does a manager after a sendBroadcast on a channel whose
\* postMessage throws.
TransportFailureDegrades ==
    [][ \A r \in Replicas :
          /\ Start(r, FALSE, "throws") => syncStatus'[r] = "degraded"
          /\ (\E message \in SendInputs :
                 broadcastChannel[r] = "throwing" /\ SendBroadcast(r, message))
                => syncStatus'[r] = "degraded" ]_vars

\* C16 (as stated): fallback delivery.  When the channel of every open
\* manager throws on postMessage, a manager that finds LAST_UPDATE_KEY newer than its lastKnownUpdate, in its polling
\* timer or in the storage event of the key, loads the collection, notifies
\* its listeners (status 'synced') and advances lastKnownUpdate to that
\* timestamp.
FallbackDelivery ==
    [][ (\A q \in Replicas : started[q] => broadcastChannel[q] = "throwing")
        => \A r \in Replicas :
          /\ (PeriodicSyncCheck(r, FALSE) /\ hasStore
                  /\ lastUpdateKey > lastKnownUpdate[r])
                => (lastKnownUpdate'[r] = lastUpdateKey /\ syncStatus'[r] = "synced")
          /\ (StorageEvent(r, "lastUpdate", FALSE) /\ hasStore
                  /\ notices[r]["lastUpdate"] > lastKnownUpdate[r])
                => (lastKnownUpdate'[r] = notices[r]["lastUpdate"]
                    /\ syncStatus'[r] = "synced") ]_vars

\* connectivity is there and every manager is open with no message,
\* connectivity event or storage event left to handle
Quiescent ==
    /\ onLine
    /\ \A r \in Replicas :
          /\ started[r]
          /\ inbox[r] = <<>> /\ pending[r] = <<>> /\ notices[r] = NoNotice

\* the collection as manager r reads it
View(r) == getCurrentData(World(r, FALSE))

HandleBoth(w, first, second) ==
    handleBroadcastMessage(handleBroadcastMessage(w, first), second)

\* what manager q has done and sent after one more successful mutation
NextMutations(q) ==
    { m \in { add(World(q, FALSE), NewPropertyOf(q)) }
            \cup { update(World(q, FALSE), ArrayData(<<UpdatedProperty(i)>>)) :
                      i \in UpdateIds }
            \cup { delete(World(q, FALSE), i) : i \in UpdateIds } :
        m.result = "success" /\ m.out # <<>> /\ m.out[1].type = "data_update" }

\* C19 (as stated): delivery-order independence.  A data_update m1 waits in
\* tab r when the other manager makes a further mutation, which sends the
\* data_update m2: the persisted collection after r has handled both is the
\* same whether m1 or m2 arrives first.
DeliveryOrderIndependent ==
    \A r \in Replicas : \A q \in Replicas \ {r} :
        (/\ started[r] /\ started[q] /\ onLine
         /\ inbox[r] # <<>> /\ Head(inbox[r]).type = "data_update")
        => \A sent \in NextMutations(q) :
             LET w == [World(r, FALSE) EXCEPT
                          !.hasStore = sent.hasStore, !.store = sent.store,
                          !.lastUpdateKey = sent.lastUpdateKey]
                 m1 == Head(inbox[r])
                 m2 == sent.out[1]
             IN getCurrentData(HandleBoth(w, m1, m2))
                  = getCurrentData(HandleBoth(w, m2, m1))

\* the fields a user entered, and the identifier
SameRecord(p, q) ==
    /\ p.id = q.id /\ p.description = q.description
    /\ p.other = q.other /\ p.status = q.status

\* a manager holds an entry of queueConflictingChanges
ConflictFlagged ==
    \E r \in Replicas : \E i \in 1..Len(offlineQueue[r]) :
        offlineQueue[r][i].type = "conflict"

\* C20 (as stated): no silent overwrite on identifier collision.  When the
\* two pages drain the adds they queued offline, every record stored so far
\* stays stored as it was, each drained add is stored under an identifier no
\* other record has, or else a conflict is flagged.
NoSilentOverwrite ==
    [][ \A r \in Replicas :
          (HandleOnline(r, FALSE) /\ offlineQueue[r] # <<>>)
          => \/ ConflictFlagged'
             \/ /\ \A i \in 1..Len(store) : \E j \in 1..Len(store') :
                      SameRecord(store[i], store'[j])
                /\ \A i \in 1..Len(store') : \A j \in 1..Len(store') :
                      store'[i].id = store'[j].id => i = j ]_vars

\* C25 (as stated): readiness order.  A manager constructed with a working
\* channel ends its start-up with status 'optimal' ('ready' comes before
\* 'optimal', never after it).
ReadinessOrder ==
    [][ \A r \in Replicas : \A full \in BOOLEAN :
          Start(r, full, "open") => syncStatus'[r] = "optimal" ]_vars

\* C23 (as stated): offline status is left on reconnection.  When the
\* 'online' listener of a manager returns, the manager's status is no longer
\* 'offline' (it is back to what it was before connectivity was lost).
OfflineLeftOnReconnect ==
    [][ \A r \in Replicas :
          (HandleOnline(r, FALSE) /\ onLine /\ syncStatus[r] = "offline")
          => syncStatus'[r] # "offline" ]_vars

\* C22 (as stated): a sync request is answered.  Whenever a sync_request is
\* delivered to a manager, a sync_response carrying the full collection goes
\* out to the requester.
SyncRequestAnswered ==
    [][ \A r \in Replicas :
          (Receive(r, FALSE) /\ Head(inbox[r]).type = "sync_request")
          => \E q \in Replicas \ {r} :
                /\ Len(inbox'[q]) = Len(inbox[q]) + 1
                /\ inbox'[q][Len(inbox'[q])].type = "sync_response"
                /\ inbox'[q][Len(inbox'[q])].data = getCurrentData(World(r, FALSE))
       ]_vars

\* the conflict entries a manager or the persisted queue holds
ConflictsIn(q) == { q[i] : i \in { j \in 1..Len(q) : q[j].type = "conflict" } }

\* C29 (as stated): queued conflicts are retained.  A conflict entry held in
\* a manager's offline queue is still in that queue, and in the queue the
\* drain persists, when a drain of that manager has run with storage
\* accepting writes (nothing in the code resolves one).
QueuedConflictsRetained ==
    [][ \A r \in Replicas :
          (HandleOnline(r, FALSE) /\ onLine)
          => /\ ConflictsIn(offlineQueue[r]) \subseteq ConflictsIn(offlineQueue'[r])
             /\ ConflictsIn(offlineQueue[r]) \subseteq ConflictsIn(queueKey') ]_vars

\* C27 (as stated): offlineQueue.add(op) always appends.  After add(op) the
\* queue in memory is the previous queue followed by op, and the persisted
\* queue key holds the same sequence.
AddAlwaysAppends ==
    [][ \A type \in OpTypes : \A full \in BOOLEAN :
          QueueAdd(type, full)
          => /\ Len(queue') = Len(queue) + 1
             /\ SubSeq(queue', 1, Len(queue)) = queue
             /\ queue'[Len(queue')].type = type
             /\ pqStored' = queue' ]_vars

\* C21 (as stated): identifier uniqueness.  No two records of the persisted
\* collection have the same id.
IdentifiersUnique ==
    \A i, j \in 1..Len(store) : store[i].id = store[j].id => i = j

\* the types handleBroadcastMessage has a case for
KnownTypes ==
    {"data_update", "sync_request", "sync_response", "conflict_resolution",
     "admin_online", "admin_offline", "ping", "pong"}

\* the manager as it is after the step
After(r) ==
    [World(r, FALSE) EXCEPT !.consecutiveFailures = consecutiveFailures'[r],
                            !.broadcastChannel = broadcastChannel'[r]]

\* C24: three consecutive message-handling failures force degraded.  The
\* handling of a message either fails, and the failure count goes up by one,
\* or succeeds, and the count is reset to 0; when the count reaches three or
\* more the status is 'degraded' as the handler returns, the fallback sync
\* has run (LAST_UPDATE_KEY rewritten when storage accepts writes), and the
\* polling interval computed from then on is the shorter one.
ThreeFailuresDegrade ==
    [][ \A r \in Replicas : \A full \in BOOLEAN :
          Receive(r, full)
          => /\ \/ consecutiveFailures'[r] = consecutiveFailures[r] + 1
                \/ consecutiveFailures'[r] = 0
             /\ Head(inbox[r]) = NullMessage
                  <=> consecutiveFailures'[r] = consecutiveFailures[r] + 1
             /\ consecutiveFailures'[r] >= 3
                  => /\ syncStatus'[r] = "degraded"
                     /\ ~full => lastUpdateKey' = clock
                     /\ getAdaptivePollingInterval(After(r)) = 2500
                     /\ getAdaptivePollingInterval(After(r)) < POLLING_INTERVAL
       ]_vars

\* C24 witness: a manager has failed to handle three messages in a row and
\* is degraded
ThreeFailuresDegradeWitness ==
    \E r \in Replicas :
        /\ consecutiveFailures[r] = 3 /\ syncStatus[r] = "degraded"
        /\ inbox[r] = <<>>

\* C28 (as stated): a malformed inbound update is dropped without side
\* effect.  Handling a data_update or sync_response whose payload is no
\* collection leaves the persisted collection and the manager's
\* lastKnownUpdate as they were.
MalformedDropped ==
    [][ \A r \in Replicas : \A full \in BOOLEAN :
          (/\ Receive(r, full)
           /\ Head(inbox[r]).type \in {"data_update", "sync_response"}
           /\ Malformed(Head(inbox[r]).data))
          => /\ store' = store /\ hasStore' = hasStore
             /\ lastKnownUpdate'[r] = lastKnownUpdate[r] ]_vars

BroadcastReachesHandlers ==
    \A r \in Replicas : \A e \in listeners[r] : \A token \in 1..broadcasts :
        (syncEvents[r] = <<>> /\ e.since < token) => <<e.fn, token>> \in heard[r]


\* ------------------------------------------------- claims: engine invariants
\* the values the status enumeration names; 'admin_offline' is the code's
\* name of peer-unreachable
StatusEnumeration ==
    {"initializing", "ready", "optimal", "degraded", "offline",
     "admin_offline", "synced"}

\* C32 (as stated): the status stays in its enumeration.  In every reachable
\* state the status of every manager is one of initializing, ready, optimal,
\* degraded, offline, admin_offline, synced.
StatusInEnumeration ==
    \A r \in Replicas : syncStatus[r] \in StatusEnumeration

\* C37 (as stated): no queued entry is lost between replicas.  A mutation
\* queued while connectivity is down leaves every entry of the persisted
\* queue in it, whichever manager wrote the entry, and adds its own.
NoQueuedEntryLost ==
    [][ (issued' = issued + 1 /\ ~onLine /\ lastResult' = "queued")
        => /\ NsOf(queueKey) \subseteq NsOf(queueKey')
           /\ issued' \in NsOf(queueKey') ]_vars

\* C38 (as stated): the update markers are monotonic.  No step lowers a
\* manager's lastKnownUpdate, and no step lowers LAST_UPDATE_KEY.
UpdateMarkersMonotonic ==
    [][ /\ \A r \in Replicas : lastKnownUpdate'[r] >= lastKnownUpdate[r]
        /\ lastUpdateKey' >= lastUpdateKey ]_vars

\* lastUpdated of the record with identifier id in a collection, 0 when the
\* collection has no such record or the record carries no lastUpdated
LastUpdatedOf(data, id) ==
    IF findIndex(data, id) = 0 THEN 0 ELSE data[findIndex(data, id)].lastUpdated

\* C31 (as stated): per-record timestamps only grow.  For every identifier
\* stored before and after a step, the stored record's lastUpdated does not
\* decrease, and an update() that resolves with success leaves the stored
\* record it was given a new version of with a lastUpdated greater than
\* before (the clock having moved on since that record was stamped).
TimestampsOnlyGrow ==
    [][ /\ \A id \in IdsOf(store) \cap IdsOf(store') :
              LastUpdatedOf(store', id) >= LastUpdatedOf(store, id)
        /\ \A r \in Replicas : \A i \in UpdateIds : \A full \in BOOLEAN :
              (/\ Update(r, ArrayData(<<UpdatedProperty(i)>>), full)
               /\ lastResult' = "success"
               /\ i \in IdsOf(store) /\ LastUpdatedOf(store, i) < clock)
              => LastUpdatedOf(store', i) > LastUpdatedOf(store, i) ]_vars


QuiescenceAfterMutation == <>[]Quiet

\* ------------------------------------------------- claims: page helpers
\* the fixed part of the k-th delay of an upload: the unit times 2^k
DelayFloor(u, k) ==
    (IF u.variant = "part_003" THEN BackoffUnit ELSE u.baseDelay) * Pow2(k)

\* C35: uploadToCloudinary calls _uploadOnce at most maxAttempts times for a
\* valid file; the k-th wait between attempts is the base delay times 2^k
\* (plus, in part_004, a jitter below one second), so its fixed part doubles
\* with every failure; the base64 fallback is tried only after the last
\* allowed attempt failed (or after an error that is never retried), and the
\* call then ends with the fallback or by throwing the last error.
UploadRetryBounded ==
    /\ upload.calls <= upload.maxAttempts
    /\ upload.attempt <= upload.calls
    /\ upload.pc = "attempting" => upload.attempt < upload.maxAttempts
    /\ Len(upload.delays) <= upload.calls
    /\ \A k \in 1..Len(upload.delays) :
          /\ upload.delays[k] >= DelayFloor(upload, k)
          /\ upload.delays[k] < DelayFloor(upload, k) + JitterRange
          /\ upload.variant = "part_003" =>
                upload.delays[k] = DelayFloor(upload, k)
          /\ k > 1 => DelayFloor(upload, k) = 2 * DelayFloor(upload, k - 1)
    /\ upload.pc = "fallback" \/ upload.result = "fallback"
          => /\ upload.lastErr # "null" \/ upload.maxAttempts = 0
             /\ upload.calls = upload.maxAttempts \/ NoRetry(upload)
    /\ upload.pc = "done"
          => \/ upload.result = "uploaded" /\ upload.calls >= 1
             \/ upload.result = "fallback"
             \/ /\ upload.result = "threw"
                /\ \/ upload.thrown = "offline" /\ upload.calls = 0
                   \/ upload.thrown = upload.lastErr /\ upload.lastErr # "null"
                   \/ upload.thrown = "reader" /\ upload.maxAttempts = 0

\* C35 (case): three attempts of part_004 failed, three waits were made, and
\* the call returned the base64 fallback
UploadRetryBoundedWitness ==
    /\ upload.pc = "done" /\ upload.result = "fallback"
    /\ upload.variant = "part_004"
    /\ upload.calls = 3 /\ Len(upload.delays) = 3

\* C40 (as stated): at most one polling timer exists at any time; when the
\* channel in use reports SUBSCRIBED no polling timer is left; and once
\* unsubscribe() was called, a CLOSED status or a 'close' event of a removed
\* channel starts no polling timer as long as subscribePosts is not called
\* again.
PollingExclusiveAndStoppable ==
    [][/\ Cardinality(realtime'.timers) <= 1
       /\ StatusCallback(realtime.channel, "SUBSCRIBED")
             => realtime'.timers = {}
       /\ /\ realtime.unsubscribed
          /\ \E c \in 1..MaxChannels :
                /\ c # realtime.channel
                /\ StatusCallback(c, "CLOSED") \/ ChannelEvent(c)
          => realtime'.timers = {}]_vars

============================================================================
